---------------------------- MODULE Spec2Model ----------------------------
(***************************************************************************)
(* Quorum Optimizer: the attribution-and-optimization resolution layer.    *)
(*                                                                         *)
(*   - last-touch attribution (dedupe): the ROW_NUMBER() query of          *)
(*     API_DOCUMENTATION.md, "Attribution Logic";                          *)
(*   - the PT configuration hierarchy (resolve): PT_CONFIGURATION.md;      *)
(*   - calcPriority / calcIndex / analyzeData of quorum-optimizer.jsx.     *)
(*                                                                         *)
(* Numbers.  The JavaScript computes with doubles.  A number of the data   *)
(* store is the integer or the decimal fraction it is written as (0.00395  *)
(* is 395 / 100000); a quotient of the code is kept as the fraction of its *)
(* operands, and what the code rounds (Math.round) is rounded as the       *)
(* doubles round it.                                                       *)
(*                                                                         *)
(* The optimizer component is a state machine of its useState variables:   *)
(* a click is one step, the callback of setTimeout is one step, and the    *)
(* render that applies the updates the callback queued is a later step.    *)
(***************************************************************************)
EXTENDS Integers, Sequences, FiniteSets, TLC

VARIABLES
    pc,          \* which step of the operation under study has been taken
    flags,       \* dedupe: the ConversionFlag rows handed in
    credited,    \* dedupe: the rows kept (rn = 1), in result order
    recredited,  \* dedupe: the rows kept when the query runs on credited
    ptConfig,    \* resolve: PT_CONFIG, platform type -> full configuration
    agencyConfig,     \* resolve: AGENCY_CONFIG, agency id -> partial override
    advertiserConfig, \* resolve: ADVERTISER_CONFIG, advertiser id -> partial override
    cfgReq,      \* resolve: the (pt, agency_id, advertiser_id) last asked for
    cfgOut,      \* resolve: the answer to cfgReq
    scoreIn,     \* calcPriority: two items, the baseline and the total
    scoreOut,    \* calcPriority, calcIndex: the priorities and indexes of the two items
    advertiserData,     \* optimizer: the data store, advertiser id -> record
    selectedAgency,     \* optimizer: useState('')
    selectedAdvertiser, \* optimizer: useState('')
    expandedAgency,     \* optimizer: useState('')
    advertisers,        \* optimizer: useState([]), the advertisers listed in the sidebar
    loading,            \* optimizer: useState(false)
    data,               \* optimizer: useState(null)
    liftIn,      \* lift: impression rows, IP lookup, visitor rows, control cohort
    joinOut,     \* lift: the result of the household join
    liftOut,     \* lift: the LiftResult or the typed failure
    timers,      \* optimizer: the pending setTimeout callbacks, oldest first,
                 \* each with the selectedAdvertiser and selectedAgency of the
                 \* render whose analyzeData started it
    pendingUpdates  \* optimizer: the state updates queued and not yet
                    \* rendered, oldest first

dedupeVars == <<flags, credited, recredited>>
resolveVars == <<ptConfig, agencyConfig, advertiserConfig, cfgReq, cfgOut>>
scoreVars == <<scoreIn, scoreOut>>
uiVars == <<advertiserData, selectedAgency, selectedAdvertiser, expandedAgency, advertisers,
           loading, data, timers, pendingUpdates>>
liftVars == <<liftIn, joinOut, liftOut>>
vars == <<pc, dedupeVars, resolveVars, scoreVars, uiVars, liftVars>>

-----------------------------------------------------------------------------
(* Generic helpers *)

SeqToSet(s) == {s[i] : i \in DOMAIN s}

\* All sequences over S of length at most n.
SeqsUpTo(S, n) == UNION {[1..k -> S] : k \in 0..n}

\* All orderings (without repetition) of the finite set S.
Perms(S) == {p \in [1..Cardinality(S) -> S] : \A i, j \in DOMAIN p : i # j => p[i] # p[j]}

-----------------------------------------------------------------------------
(* The PT configuration hierarchy                                          *)
(*                                                                         *)
(*   Resolution order (first match wins):                                  *)
(*     1. Advertiser Override  2. Agency Override                          *)
(*     3. PT Default           4. Global Default (unknown PTs)             *)
(*                                                                         *)
(* A configuration is a function from field names to values; an override   *)
(* is a function on a subset of the fields (the fields it sets).           *)

\* decode_policy is the identifier of the transform, not the transform.
Fields == {"publisher_column", "decode_policy"}

FieldValues(f) ==
    IF f = "publisher_column" THEN {"PUBLISHER_CODE", "SITE"}
    ELSE {"none", "url_decode_twice"}

\* Every override that sets exactly the fields of D.
OverridesOn(D) == {o \in [D -> UNION {FieldValues(f) : f \in Fields}] :
                      \A f \in D : o[f] \in FieldValues(f)}

FullConfigs == OverridesOn(Fields)
PartialConfigs == UNION {OverridesOn(D) : D \in SUBSET Fields}

KnownPTs == {22}
KnownAgencies == {2514}
KnownAdvertisers == {45143}

\* Tables whose keys are some of the ids of Ids and whose entries are in Cs.
TablesOver(Ids, Cs) == UNION {[K -> Cs] : K \in SUBSET Ids}

\* Ids a caller may pass: known, unknown and structurally invalid (negative).
PtArgs == KnownPTs \cup {99, -1}
AgencyArgs == KnownAgencies \cup {1, -1}
AdvertiserArgs == KnownAdvertisers \cup {2, -1}

GlobalDefault == [publisher_column |-> "PUBLISHER_CODE", decode_policy |-> "none"]

NoConfig == [f \in {} |-> "none"]

StructurallyValid(pt, ag, adv) == pt >= 0 /\ ag >= 0 /\ adv >= 0

\* A mutant: an override that sets any field replaces the whole record.
MergeWholeRecord(base, over) ==
    IF DOMAIN over = {} THEN base ELSE over

\* dict.update: the entries of over replace those of base.
Merge(base, over) ==
    [f \in DOMAIN base \cup DOMAIN over |-> IF f \in DOMAIN over THEN over[f] ELSE base[f]]

\* table.get(id, {})
Lookup(table, id) == IF id \in DOMAIN table THEN table[id] ELSE NoConfig

\* A mutant: the agency override is applied last, over the advertiser's.
ResolveAgencyLast(ptc, agc, advc, pt, ag, adv) ==
    IF ~StructurallyValid(pt, ag, adv)
    THEN [ok |-> FALSE, config |-> NoConfig, low_confidence |-> FALSE]
    ELSE [ok |-> TRUE,
          config |-> Merge(Merge(Merge(GlobalDefault, Lookup(ptc, pt)),
                                 Lookup(advc, adv)), Lookup(agc, ag)),
          low_confidence |-> pt \notin DOMAIN ptc]

\* A mutant: no global default under an unknown platform type.
ResolveNoDefault(ptc, agc, advc, pt, ag, adv) ==
    IF ~StructurallyValid(pt, ag, adv)
    THEN [ok |-> FALSE, config |-> NoConfig, low_confidence |-> FALSE]
    ELSE [ok |-> TRUE,
          config |-> Merge(Merge(Lookup(ptc, pt), Lookup(agc, ag)), Lookup(advc, adv)),
          low_confidence |-> pt \notin DOMAIN ptc]

\* A mutant: the answer for an unknown platform type is not flagged.
ResolveNoFlag(ptc, agc, advc, pt, ag, adv) ==
    IF ~StructurallyValid(pt, ag, adv)
    THEN [ok |-> FALSE, config |-> NoConfig, low_confidence |-> FALSE]
    ELSE [ok |-> TRUE,
          config |-> Merge(Merge(Merge(GlobalDefault, Lookup(ptc, pt)),
                                 Lookup(agc, ag)), Lookup(advc, adv)),
          low_confidence |-> FALSE]

\* resolve(platform_type, agency_id, advertiser_id) over the three tables.
Resolve(ptc, agc, advc, pt, ag, adv) ==
    IF ~StructurallyValid(pt, ag, adv)
    THEN [ok |-> FALSE, config |-> NoConfig, low_confidence |-> FALSE]
    ELSE [ok |-> TRUE,
          config |-> Merge(Merge(Merge(GlobalDefault, Lookup(ptc, pt)),
                                 Lookup(agc, ag)), Lookup(advc, adv)),
          low_confidence |-> pt \notin DOMAIN ptc]

-----------------------------------------------------------------------------
(* Last-touch attribution                                                  *)
(*                                                                         *)
(*   ROW_NUMBER() OVER (PARTITION BY DEVICE_ID_QU, DRIVEBYDATE             *)
(*                      ORDER BY IMP_TIMESTAMP DESC) as rn                 *)
(*   -- Keep only rn = 1                                                   *)
(*                                                                         *)
(* The attribution step alone: the rows flagged IS_STORE_VISIT = TRUE are  *)
(* numbered within their episode and the rows numbered 1 are kept.  What a *)
(* query does with the kept rows afterwards (a join to the ZIP code of the *)
(* device, a count by ZIP code) is not part of the step.                   *)

NumDevices == 2
NumDates == 2
MaxTs == 2
MaxFlags == 3

\* Source-row identifiers are strings; a string is modelled as the sequence
\* of its digits so that lexicographic order is not numeric order
\* ("10" sorts before "2").
RowIds == {<<1>>, <<1, 0>>, <<2>>}

RECURSIVE LexLess(_, _)
LexLess(a, b) ==
    IF a = <<>> THEN b # <<>>
    ELSE IF b = <<>> THEN FALSE
    ELSE IF Head(a) # Head(b) THEN Head(a) < Head(b)
    ELSE LexLess(Tail(a), Tail(b))

ConversionFlag ==
    [id : RowIds, device : 1..NumDevices, date : 1..NumDates, ts : 1..MaxTs]

\* The episode key of a row: (device, conversion date).
EpisodeKey(r) == <<r.device, r.date>>

\* The orders in which at most MaxFlags distinct source rows can come.
IdLists ==
    {ids \in SeqsUpTo(RowIds, MaxFlags) : \A i, j \in DOMAIN ids : i # j => ids[i] # ids[j]}

\* Input tables with the source-row identifiers ids: every device, date and
\* timestamp for every row.
FlagLists(ids) ==
    {[i \in DOMAIN ids |-> [id |-> ids[i], device |-> at[i].device,
                            date |-> at[i].date, ts |-> at[i].ts]] :
        at \in [DOMAIN ids -> [device : 1..NumDevices, date : 1..NumDates, ts : 1..MaxTs]]}

\* A mutant: partitions by device only.
PartitionByDevice(fl, i) == {j \in DOMAIN fl : fl[j].device = fl[i].device}

\* PARTITION BY DEVICE_ID_QU, DRIVEBYDATE: the rows in the partition of row i.
Partition(fl, i) == {j \in DOMAIN fl : EpisodeKey(fl[j]) = EpisodeKey(fl[i])}

Partitions(fl) == {Partition(fl, i) : i \in DOMAIN fl}

\* A mutant: ORDER BY IMP_TIMESTAMP ASC (first touch).
RowNumberOneAsc(fl, P) == {i \in P : \A j \in P : fl[i].ts <= fl[j].ts}

\* ORDER BY IMP_TIMESTAMP DESC, rn = 1: the rows of partition P that the
\* engine may number 1.  The ORDER BY names the timestamp only, so among rows
\* that share the greatest timestamp the engine is free to number any one
\* of them 1.
RowNumberOne(fl, P) == {i \in P : \A j \in P : fl[i].ts >= fl[j].ts}

\* Every result the query can produce for the table fl: one rn = 1 row per
\* partition, the result rows in any order (the query has no outer ORDER BY).
DedupeOutcomes(fl) ==
    LET parts == Partitions(fl)
        picks == {pk \in [parts -> DOMAIN fl] : \A P \in parts : pk[P] \in RowNumberOne(fl, P)}
    IN  UNION {
            {[n \in DOMAIN ord |-> fl[ord[n]]] : ord \in Perms({pk[P] : P \in parts})}
            : pk \in picks}

-----------------------------------------------------------------------------
(* The numbers of JavaScript (IEEE 754 binary64), for Math.round            *)
(*                                                                         *)
(* A natural number of any size is the sequence of its digits to the base  *)
(* 2^15, lowest digit first, without leading zeros; 0 is <<>>.  A double   *)
(* is [s, m, e]: the number s * m * 2^e with the sign s in {-1, 0, 1} and  *)
(* the significand m a natural number below 2^54.  The operations round to *)
(* the nearest double, ties to the even significand; the exponent range is *)
(* not limited (no value of the optimizer comes near its ends).            *)

Limb == 32768
LimbBits == 15
SignificandBits == 53

RECURSIVE Pow2(_)
Pow2(k) == IF k = 0 THEN 1 ELSE 2 * Pow2(k - 1)

RECURSIVE BigOf(_)
BigOf(n) == IF n = 0 THEN <<>> ELSE <<n % Limb>> \o BigOf(n \div Limb)

RECURSIVE BigToInt(_)
BigToInt(a) == IF a = <<>> THEN 0 ELSE a[1] + Limb * BigToInt(Tail(a))

RECURSIVE BigTrim(_)
BigTrim(a) ==
    IF a = <<>> THEN <<>>
    ELSE IF a[Len(a)] = 0 THEN BigTrim(SubSeq(a, 1, Len(a) - 1))
    ELSE a

\* -1, 0 or 1 as a is below, equal to or above b.
RECURSIVE BigCmpFrom(_, _, _)
BigCmpFrom(a, b, i) ==
    IF i = 0 THEN 0
    ELSE IF a[i] < b[i] THEN -1
    ELSE IF a[i] > b[i] THEN 1
    ELSE BigCmpFrom(a, b, i - 1)

BigCmp(a, b) ==
    IF Len(a) < Len(b) THEN -1
    ELSE IF Len(a) > Len(b) THEN 1
    ELSE BigCmpFrom(a, b, Len(a))

RECURSIVE BigAddFrom(_, _, _, _)
BigAddFrom(a, b, i, carry) ==
    IF i > Len(a) /\ i > Len(b)
    THEN IF carry = 0 THEN <<>> ELSE <<carry>>
    ELSE LET t == (IF i <= Len(a) THEN a[i] ELSE 0)
                  + (IF i <= Len(b) THEN b[i] ELSE 0) + carry
         IN  <<t % Limb>> \o BigAddFrom(a, b, i + 1, t \div Limb)

BigAdd(a, b) == BigAddFrom(a, b, 1, 0)

\* a - b for a >= b.
RECURSIVE BigSubFrom(_, _, _, _)
BigSubFrom(a, b, i, borrow) ==
    IF i > Len(a) THEN <<>>
    ELSE LET t == a[i] - (IF i <= Len(b) THEN b[i] ELSE 0) - borrow
         IN  IF t < 0 THEN <<t + Limb>> \o BigSubFrom(a, b, i + 1, 1)
             ELSE <<t>> \o BigSubFrom(a, b, i + 1, 0)

BigSub(a, b) == BigTrim(BigSubFrom(a, b, 1, 0))

\* a * k for 0 <= k <= Limb.
RECURSIVE BigMulSmallFrom(_, _, _, _)
BigMulSmallFrom(a, k, i, carry) ==
    IF i > Len(a)
    THEN IF carry = 0 THEN <<>> ELSE <<carry>>
    ELSE LET t == a[i] * k + carry
         IN  <<t % Limb>> \o BigMulSmallFrom(a, k, i + 1, t \div Limb)

BigMulSmall(a, k) == BigTrim(BigMulSmallFrom(a, k, 1, 0))

RECURSIVE BigMul(_, _)
BigMul(a, b) ==
    IF a = <<>> \/ b = <<>> THEN <<>>
    ELSE LET rest == BigMul(a, Tail(b))
         IN  BigAdd(BigMulSmall(a, b[1]), IF rest = <<>> THEN <<>> ELSE <<0>> \o rest)

\* a * 2^k
BigShl(a, k) ==
    IF a = <<>> THEN <<>>
    ELSE [i \in 1..(k \div LimbBits) |-> 0] \o BigMulSmall(a, Pow2(k % LimbBits))

\* <<the digits of floor(a / k), a mod k>> for 0 < k <= Limb, from the
\* highest digit of a down; rem is the remainder so far.
RECURSIVE BigDivSmallFrom(_, _, _, _)
BigDivSmallFrom(a, k, i, rem) ==
    IF i = 0 THEN <<<<>>, rem>>
    ELSE LET t == rem * Limb + a[i]
             rest == BigDivSmallFrom(a, k, i - 1, t % k)
         IN  <<rest[1] \o <<t \div k>>, rest[2]>>

\* floor(a / 2^k)
BigShr(a, k) ==
    IF k \div LimbBits >= Len(a) THEN <<>>
    ELSE LET high == SubSeq(a, (k \div LimbBits) + 1, Len(a))
         IN  BigTrim(BigDivSmallFrom(high, Pow2(k % LimbBits), Len(high), 0)[1])

RECURSIVE BitLenOfInt(_)
BitLenOfInt(n) == IF n = 0 THEN 0 ELSE 1 + BitLenOfInt(n \div 2)

\* The number of binary digits of a.
BigBitLen(a) ==
    IF a = <<>> THEN 0 ELSE LimbBits * (Len(a) - 1) + BitLenOfInt(a[Len(a)])

BigOdd(a) == a # <<>> /\ a[1] % 2 = 1

\* The largest digit q with q * b <= r, looked for from the guess q down.
RECURSIVE BigDigitDown(_, _, _)
BigDigitDown(r, b, q) ==
    IF BigCmp(BigMulSmall(b, q), r) > 0 THEN BigDigitDown(r, b, q - 1) ELSE q

\* One digit of the long division by b, for r < b * Limb and a highest
\* digit of b of at least Limb / 2: the two highest digits of r divided by
\* the highest of b are the digit or a little more.
BigDigit(r, b) ==
    LET n == Len(b)
        top == (IF Len(r) > n THEN r[n + 1] * Limb ELSE 0)
               + (IF Len(r) >= n THEN r[n] ELSE 0)
        guess == top \div b[n]
    IN  BigDigitDown(r, b, IF guess >= Limb THEN Limb - 1 ELSE guess)

\* <<the digits of floor(a / b), a mod b>> from the digit j of a down, r
\* being the remainder and q the digits of the quotient so far.
RECURSIVE BigDivModFrom(_, _, _, _, _)
BigDivModFrom(a, b, j, q, r) ==
    IF j = 0 THEN <<q, r>>
    ELSE LET r2 == IF r = <<>> /\ a[j] = 0 THEN <<>> ELSE <<a[j]>> \o r
             digit == BigDigit(r2, b)
             r3 == BigSub(r2, BigMulSmall(b, digit))
         IN  IF digit = 0 /\ q = <<>>
             THEN BigDivModFrom(a, b, j - 1, q, r3)
             ELSE BigDivModFrom(a, b, j - 1, <<digit>> \o q, r3)

\* <<floor(a / b), a mod b>> for b > 0.  For a divisor of several digits
\* both numbers are first doubled until the highest digit of the divisor
\* is at least Limb / 2, which leaves the quotient as it is.
BigDivMod(a, b) ==
    IF Len(b) = 1
    THEN LET qr == BigDivSmallFrom(a, b[1], Len(a), 0)
         IN  <<BigTrim(qr[1]), BigOf(qr[2])>>
    ELSE LET shift == LimbBits - BitLenOfInt(b[Len(b)])
             a2 == BigShl(a, shift)
             qr == BigDivModFrom(a2, BigShl(b, shift), Len(a2), <<>>, <<>>)
         IN  <<qr[1], BigShr(qr[2], shift)>>

DblZero == [s |-> 0, m |-> <<>>, e |-> 0]

\* The significand kept of the quotient qr[1] with the remainder qr[2], and
\* the t digits cut off: above the half up, below it down, on the half (the
\* remainder counted) to the even significand.
RoundKept(s, e, qr, t, kept) ==
    LET half == BigCmp(BigSub(qr[1], BigShl(kept, t)), BigShl(<<1>>, t - 1))
    IN  [s |-> s,
         m |-> IF half > 0 \/ (half = 0 /\ (qr[2] # <<>> \/ BigOdd(kept)))
               THEN BigAdd(kept, <<1>>) ELSE kept,
         e |-> e]

\* The double nearest to s * (qr[1] + a fraction, zero exactly if qr[2] is
\* zero) * 2^e, the quotient qr[1] having more digits than a significand.
RoundQuotient(s, e, qr) ==
    LET t == BigBitLen(qr[1]) - SignificandBits
    IN  RoundKept(s, e + t, qr, t, BigShr(qr[1], t))

\* The double nearest to s * (p / q) * 2^e for natural p, q > 0: the
\* quotient is taken to at least two digits more than the significand has,
\* and the digits cut off decide.
RoundToDouble(s, p, q, e) ==
    IF p = <<>> \/ s = 0 THEN DblZero
    ELSE LET need == SignificandBits + 2 + BigBitLen(q) - BigBitLen(p)
             k == IF need > 0 THEN need ELSE 0
         IN  RoundQuotient(s, e - k, BigDivMod(BigShl(p, k), q))

\* The double of an integer of the model (below 2^31: exact).
DblOfInt(n) ==
    IF n = 0 THEN DblZero
    ELSE [s |-> IF n > 0 THEN 1 ELSE -1, m |-> BigOf(IF n > 0 THEN n ELSE -n), e |-> 0]

\* The double of the quotient n / d of two integers, d > 0: what the
\* division of JavaScript gives, and what the literal of a decimal fraction
\* (0.017 is 17 / 1000) denotes.
DblOfRatio(n, d) ==
    IF n = 0 THEN DblZero
    ELSE RoundToDouble(IF n > 0 THEN 1 ELSE -1, BigOf(IF n > 0 THEN n ELSE -n), BigOf(d), 0)

\* a / b for b # 0
DblDiv(a, b) == RoundToDouble(a.s * b.s, a.m, b.m, a.e - b.e)

\* a * b
DblMul(a, b) ==
    IF a.s = 0 \/ b.s = 0 THEN DblZero
    ELSE LET p == BigMul(a.m, b.m)
         IN  IF BigBitLen(p) <= SignificandBits
             THEN [s |-> a.s * b.s, m |-> p, e |-> a.e + b.e]
             ELSE RoundToDouble(a.s * b.s, p, <<1>>, a.e + b.e)

\* a - b
DblSub(a, b) ==
    IF b.s = 0 THEN a
    ELSE IF a.s = 0 THEN [s |-> -b.s, m |-> b.m, e |-> b.e]
    ELSE LET e == IF a.e <= b.e THEN a.e ELSE b.e
             x == BigShl(a.m, a.e - e)
             y == BigShl(b.m, b.e - e)
             c == BigCmp(x, y)
             s == IF a.s # b.s THEN a.s ELSE a.s * c
             d == IF a.s # b.s THEN BigAdd(x, y)
                  ELSE IF c >= 0 THEN BigSub(x, y) ELSE BigSub(y, x)
         IN  IF d = <<>> THEN DblZero
             ELSE IF BigBitLen(d) <= SignificandBits THEN [s |-> s, m |-> d, e |-> e]
             ELSE RoundToDouble(s, d, <<1>>, e)

\* Math.round(x): the integer nearest to x, a half going towards +Infinity.
MathRoundDouble(x) ==
    IF x.s = 0 THEN 0
    ELSE IF x.e >= 0 THEN x.s * BigToInt(BigShl(x.m, x.e))
    ELSE LET unit == BigShl(<<1>>, -x.e)
             twice == BigMulSmall(x.m, 2)
         IN  IF x.s > 0
             THEN BigToInt(BigShr(BigAdd(twice, unit), 1 - x.e))
             ELSE IF BigCmp(twice, unit) <= 0 THEN 0
             ELSE -BigToInt(BigShr(BigAdd(BigSub(twice, unit),
                                          BigSub(BigShl(<<1>>, 1 - x.e), <<1>>)),
                                   1 - x.e))

-----------------------------------------------------------------------------
(* STANDARD CALCULATIONS (quorum-optimizer.jsx)                            *)
(*                                                                         *)
(* A rate is a rational [n |-> numerator, d |-> denominator], d > 0.       *)

MaxScoreImps == 3
MaxScoreTotal == 4
MaxScoreRate == 8

\* The rate n/1000, as the data store writes 0.004.
Rate(n) == [n |-> n, d |-> 1000]

\* A mutant: Math.floor instead of Math.round.
MathFloor(n, d) == n \div d

\* Math.round(n / d) for d > 0: the nearest integer, halves towards +infinity.
MathRound(n, d) == (2 * n + d) \div (2 * d)

Abs(x) == IF x < 0 THEN 0 - x ELSE x

RECURSIVE Gcd(_, _)
Gcd(a, b) == IF b = 0 THEN a ELSE Gcd(b, a % b)

\* The fraction q (q.d # 0) in lowest terms with a positive denominator.
Lowest(q) ==
    LET g == Gcd(Abs(q.n), Abs(q.d))
        sgn == IF q.d < 0 THEN -1 ELSE 1
    IN  [n |-> sgn * (q.n \div g), d |-> sgn * (q.d \div g)]

\* n / d, d > 0, is an integer and a half.
Halfway(n, d) == (2 * n) % d = 0 /\ n % d # 0

\* The largest integer of the model checker.
MaxInteger == 2147483647

\* k * x * y can be computed in the integers of the model checker, k > 0.
Fits(k, x, y) == y = 0 \/ Abs(x) <= (MaxInteger \div k) \div Abs(y)

\* The fraction (n1 * n2) / (d1 * d2) and a hundred times it, rounded, can
\* be computed in the integers of the model checker.
PercentFits(n1, n2, d1, d2) ==
    /\ Fits(1, n1, n2)
    /\ Fits(1, d1, d2)
    /\ LET ratio == Lowest([n |-> n1 * n2, d |-> d1 * d2])
       IN  Fits(800, ratio.n, 1) /\ Fits(8, ratio.d, 1)

\* The double of a rate: of the literal of the data store, or of the
\* quotient visits / impressions.
DoubleOfRate(rate) == DblOfRatio(rate.n, rate.d)

\* impShare * 1000 - perfRatio * 100 can be computed as a fraction, and
\* rounded, in the integers of the model checker.
PriorityFits(item, baseline, totalImpressions) ==
    /\ Fits(1, item.visitRate.n, baseline.d)
    /\ Fits(1, item.visitRate.d, baseline.n)
    /\ LET impShare == Lowest([n |-> item.impressions, d |-> totalImpressions])
           perfRatio == IF baseline.n > 0
                        THEN Lowest([n |-> item.visitRate.n * baseline.d,
                                     d |-> item.visitRate.d * baseline.n])
                        ELSE [n |-> 0, d |-> 1]
       IN  /\ Fits(8000, impShare.n, perfRatio.d)
           /\ Fits(800, perfRatio.n, impShare.d)
           /\ Fits(8, impShare.d, perfRatio.d)

\* impShare * 1000 - perfRatio * 100 as a fraction, the two quotients in
\* lowest terms.
PriorityExact(item, baseline, totalImpressions) ==
    LET impShare == Lowest([n |-> item.impressions, d |-> totalImpressions])
        perfRatio == IF baseline.n > 0
                     THEN Lowest([n |-> item.visitRate.n * baseline.d,
                                  d |-> item.visitRate.d * baseline.n])
                     ELSE [n |-> 0, d |-> 1]
    IN  [n |-> 1000 * impShare.n * perfRatio.d - 100 * perfRatio.n * impShare.d,
         d |-> impShare.d * perfRatio.d]

\* The same in the doubles of the code, operation by operation.
PriorityDouble(item, baseline, totalImpressions) ==
    DblSub(DblMul(DblOfRatio(item.impressions, totalImpressions), DblOfInt(1000)),
           DblMul(IF baseline.n > 0
                  THEN DblDiv(DoubleOfRate(item.visitRate), DoubleOfRate(baseline))
                  ELSE DblZero,
                  DblOfInt(100)))

\* (itemRate / baselineRate) * 100 in the doubles of the code.
IndexDouble(itemRate, baselineRate) ==
    DblMul(DblDiv(DoubleOfRate(itemRate), DoubleOfRate(baselineRate)), DblOfInt(100))

\* A mutant: the performance term is added instead of subtracted.
calcPriorityAdded(item, baseline, totalImpressions) ==
    IF baseline.n > 0
    THEN MathRound(1000 * item.impressions * item.visitRate.d * baseline.n
                     + 100 * item.visitRate.n * baseline.d * totalImpressions,
                   totalImpressions * item.visitRate.d * baseline.n)
    ELSE MathRound(1000 * item.impressions, totalImpressions)

\* calcPriority(item, baseline, totalImpressions):
\*   impShare  = item.impressions / totalImpressions
\*   perfRatio = baseline > 0 ? item.visitRate / baseline : 0
\*   Math.round(impShare * 1000 - perfRatio * 100)
\* totalImpressions > 0 and item.visitRate.d > 0.  The result is that of
\* the doubles of the code.  Where the exact value is a fraction n / d with
\* 8 * |n| and 8 * d within the integers of the model checker, the doubles
\* are within |n| / d * 2^-50 of it (some seven roundings), which is less
\* than the 1 / (2 * d) the exact value is away from the nearest integer and
\* a half, so the double rounds as the exact value does unless that is an
\* integer and a half; there, and for larger numbers, the doubles are run.
calcPriority(item, baseline, totalImpressions) ==
    IF /\ PriorityFits(item, baseline, totalImpressions)
       /\ ~Halfway(PriorityExact(item, baseline, totalImpressions).n,
                   PriorityExact(item, baseline, totalImpressions).d)
    THEN MathRound(PriorityExact(item, baseline, totalImpressions).n,
                   PriorityExact(item, baseline, totalImpressions).d)
    ELSE MathRoundDouble(PriorityDouble(item, baseline, totalImpressions))

\* A mutant: the index is truncated instead of rounded.
calcIndexTruncated(itemRate, baselineRate) ==
    IF baselineRate.n > 0
    THEN (100 * itemRate.n * baselineRate.d) \div (itemRate.d * baselineRate.n)
    ELSE 0

\* Math.round of a hundred times the fraction (n1 * n2) / (d1 * d2), exactly.
RoundedPercent(n1, n2, d1, d2) ==
    LET ratio == Lowest([n |-> n1 * n2, d |-> d1 * d2])
    IN  MathRound(100 * ratio.n, ratio.d)

\* A hundred times the fraction (n1 * n2) / (d1 * d2) is an integer and a half.
PercentHalfway(n1, n2, d1, d2) ==
    LET ratio == Lowest([n |-> n1 * n2, d |-> d1 * d2])
    IN  Halfway(100 * ratio.n, ratio.d)

\* calcIndex(itemRate, baselineRate):
\*   baselineRate > 0 ? Math.round((itemRate / baselineRate) * 100) : 0
\* Rounded as in calcPriority: by the exact value where that cannot differ
\* from the doubles, by the doubles elsewhere.
calcIndex(itemRate, baselineRate) ==
    IF baselineRate.n > 0
    THEN IF /\ PercentFits(itemRate.n, baselineRate.d, itemRate.d, baselineRate.n)
            /\ ~PercentHalfway(itemRate.n, baselineRate.d, itemRate.d, baselineRate.n)
         THEN RoundedPercent(itemRate.n, baselineRate.d, itemRate.d, baselineRate.n)
         ELSE MathRoundDouble(IndexDouble(itemRate, baselineRate))
    ELSE 0

ScoreItems == [impressions : 0..MaxScoreImps, visitRate : {Rate(n) : n \in 0..MaxScoreRate}]

-----------------------------------------------------------------------------
(* ANALYZE DATA (quorum-optimizer.jsx)                                     *)
(*                                                                         *)
(* An advertiser's record of the data store:                                *)
(*   summary   [totalImpressions, totalVisits, overallVisitRate,            *)
(*              liftVsControl]                                              *)
(*   campaigns [name, impressions, visits, visitRate]                       *)
(*   publishers / contexts [code, impressions, visits, visitRate]           *)
(*   zipCodes  [zip, dma, population, impressions, visits] and, in some     *)
(*             rows, visitRate                                              *)
(*   dmaZipCounts, trafficSources, noPublisherData                          *)
(* A record is a function on the keys it has: a key the record does not     *)
(* have is not in its DOMAIN.  An array is a sequence and dmaZipCounts a     *)
(* function from DMA names to counts.  A row without a DMA has dma = "".    *)
(* summary.totalImpressions > 0.                                            *)

ConsTop == 5
AggTopPubs == 8
AggTopZips == 10
AggPubThreshold == -20
AggZipThreshold == -50
MinDmaZips == 5
DefaultDmaZips == 999
MaxExcludePct == 35

Min(a, b) == IF a <= b THEN a ELSE b

\* obj[key] || default, for a key that holds an array, an object or true
\* where the object has it: the value under the key, the default without it.
OrElse(obj, key, default) == IF key \in DOMAIN obj THEN obj[key] ELSE default

\* items.reduce((s, i) => s + i[f], 0)
RECURSIVE Sum(_, _)
Sum(items, f) ==
    IF items = <<>> THEN 0 ELSE items[1][f] + Sum(Tail(items), f)

\* items.filter(test), test given as the set of rows that pass.
RECURSIVE Filter(_, _)
Filter(items, pass) ==
    IF items = <<>> THEN <<>>
    ELSE IF items[1] \in pass THEN <<items[1]>> \o Filter(Tail(items), pass)
    ELSE Filter(Tail(items), pass)

\* A mutant: one row more than asked for.
SliceOneMore(items, n) == SubSeq(items, 1, Min(n + 1, Len(items)))

\* items.slice(0, n)
Slice(items, n) == SubSeq(items, 1, Min(n, Len(items)))

\* [...rows].sort((a, b) => b.reallocationPriority - a.reallocationPriority):
\* descending by priority; Array.prototype.sort is stable, so rows of equal
\* priority keep the order they had.
SortByPriority(rows) ==
    LET n == Len(rows)
        Before(j, i) ==
            \/ rows[j].reallocationPriority > rows[i].reallocationPriority
            \/ /\ rows[j].reallocationPriority = rows[i].reallocationPriority
               /\ j < i
        pos == [i \in 1..n |-> 1 + Cardinality({j \in 1..n : Before(j, i)})]
    IN  [k \in 1..n |-> rows[CHOOSE i \in 1..n : pos[i] = k]]

\* advData.publishers || advData.contexts || []: an array is truthy, the
\* empty one too, so the contexts are read only when the record has no
\* publishers key.
PublishersOrContexts(advData) ==
    IF "publishers" \in DOMAIN advData THEN advData.publishers
    ELSE OrElse(advData, "contexts", <<>>)

\* (advData.campaigns || []).map(c => ({...c, index: calcIndex(c.visitRate, baseline)}))
EnrichCampaigns(advData) ==
    LET cs == OrElse(advData, "campaigns", <<>>)
    IN  [i \in DOMAIN cs |->
            ("index" :> calcIndex(cs[i].visitRate, advData.summary.overallVisitRate))
                @@ cs[i]]

\* (...).map(p => ({...p, reallocationPriority: calcPriority(p, baseline, totalImps)}))
EnrichPublishers(advData) ==
    LET ps == PublishersOrContexts(advData)
    IN  [i \in DOMAIN ps |->
            ("reallocationPriority" :>
                 calcPriority(ps[i], advData.summary.overallVisitRate,
                              advData.summary.totalImpressions))
                @@ ps[i]]

\* z.impressions > 0 ? (z.visits / z.impressions) : (z.visitRate || 0):
\* a row without impressions keeps the visitRate it came with, and has the
\* rate 0 when it came without one.
ZipVisitRate(z) ==
    IF z.impressions > 0 THEN [n |-> z.visits, d |-> z.impressions]
    ELSE OrElse(z, "visitRate", Rate(0))

\* zipPopShare > 0 ? Math.round((zipImpShare / zipPopShare) * 100) : 0
\* with zipImpShare = z.impressions / totalImps and
\* zipPopShare = totalPop > 0 ? (z.population || 0) / totalPop : 0.
\* Rounded as in calcPriority.
PopWeightedIdx(z, totalPop, totalImps) ==
    IF totalPop > 0 /\ z.population > 0
    THEN IF /\ PercentFits(z.impressions, totalPop, totalImps, z.population)
            /\ ~PercentHalfway(z.impressions, totalPop, totalImps, z.population)
         THEN RoundedPercent(z.impressions, totalPop, totalImps, z.population)
         ELSE MathRoundDouble(
                  DblMul(DblDiv(DblOfRatio(z.impressions, totalImps),
                                DblOfRatio(z.population, totalPop)),
                         DblOfInt(100)))
    ELSE 0

\* A mutant: the generic priority for every ZIP, the population ignored.
ZipPriorityGeneric(z, totalPop, baseline, totalImps) ==
    calcPriority([impressions |-> z.impressions, visitRate |-> ZipVisitRate(z)],
                 baseline, totalImps)

\* The priority of a ZIP row: popWeightedIdx > 0 ? popWeightedIdx - perfIdx
\*   : calcPriority({impressions: z.impressions, visitRate}, baseline, totalImps)
ZipPriority(z, totalPop, baseline, totalImps) ==
    LET visitRate == ZipVisitRate(z)
        popWeightedIdx == PopWeightedIdx(z, totalPop, totalImps)
        perfIdx == calcIndex(visitRate, baseline)
    IN  IF popWeightedIdx > 0 THEN popWeightedIdx - perfIdx
        ELSE calcPriority([impressions |-> z.impressions, visitRate |-> visitRate],
                          baseline, totalImps)

\* (advData.zipCodes || []).map(z => {... return {...z, visitRate, reallocationPriority}})
EnrichZips(advData) ==
    LET zs == OrElse(advData, "zipCodes", <<>>)
        totalPop == Sum(zs, "population")
    IN  [i \in DOMAIN zs |->
            ("visitRate" :> ZipVisitRate(zs[i]))
                @@ ("reallocationPriority" :>
                        ZipPriority(zs[i], totalPop, advData.summary.overallVisitRate,
                                    advData.summary.totalImpressions))
                @@ zs[i]]

\* sortedPubs / sortedZips
sortedPubs(publishers) == SortByPriority(publishers)
sortedZips(zipCodes) == SortByPriority(zipCodes)

\* sortedPubs.filter(p => p.reallocationPriority > 0 && p.visits > 0).slice(0, 5)
consPubs(sorted) ==
    Slice(Filter(sorted, {p \in SeqToSet(sorted) :
                            p.reallocationPriority > 0 /\ p.visits > 0}), ConsTop)

\* A mutant: the aggressive threshold with the wrong sign.
aggPubsAboveTwenty(sorted) ==
    Slice(Filter(sorted, {p \in SeqToSet(sorted) :
                            p.reallocationPriority > -AggPubThreshold}), AggTopPubs)

\* A mutant: the aggressive tier without its filter, the first 8 rows.
aggPubsWithoutThreshold(sorted) == Slice(sorted, AggTopPubs)

\* sortedPubs.filter(p => p.reallocationPriority > -20).slice(0, 8)
aggPubs(sorted) ==
    Slice(Filter(sorted, {p \in SeqToSet(sorted) :
                            p.reallocationPriority > AggPubThreshold}), AggTopPubs)

\* The names an object literal answers to without having them as keys: the
\* members it inherits from Object.prototype.
ObjectPrototypeKeys ==
    {"constructor", "hasOwnProperty", "isPrototypeOf", "propertyIsEnumerable",
     "toLocaleString", "toString", "valueOf", "__proto__", "__defineGetter__",
     "__defineSetter__", "__lookupGetter__", "__lookupSetter__"}

\* dmaZipCounts[z.dma] || 999: the count of the DMA; 999 for a count of 0 and
\* for a DMA without a count; and for a DMA without a count whose name is a
\* member of Object.prototype that member, a function (an object for
\* __proto__), which is truthy.
DmaCount(dmaZipCounts, dma) ==
    IF dma \in DOMAIN dmaZipCounts
    THEN [type |-> "number",
          value |-> IF dmaZipCounts[dma] # 0 THEN dmaZipCounts[dma] ELSE DefaultDmaZips]
    ELSE IF dma \in ObjectPrototypeKeys
    THEN [type |-> IF dma = "__proto__" THEN "object" ELSE "function"]
    ELSE [type |-> "number", value |-> DefaultDmaZips]

\* (!z.dma || (dmaZipCounts[z.dma] || 999) > 5): a function or an object
\* compares as NaN, which is greater than nothing.
DmaGuard(z, dmaZipCounts) ==
    \/ z.dma = ""
    \/ LET count == DmaCount(dmaZipCounts, z.dma)
       IN  count.type = "number" /\ count.value > MinDmaZips

\* sortedZips.filter(z => z.reallocationPriority > 0 && z.visits > 0
\*                        && (!z.dma || ...)).slice(0, 5)
consZips(sorted, dmaZipCounts) ==
    Slice(Filter(sorted, {z \in SeqToSet(sorted) :
                            /\ z.reallocationPriority > 0
                            /\ z.visits > 0
                            /\ DmaGuard(z, dmaZipCounts)}), ConsTop)

\* sortedZips.filter(z => z.reallocationPriority > -50 && (!z.dma || ...)).slice(0, 10)
aggZips(sorted, dmaZipCounts) ==
    Slice(Filter(sorted, {z \in SeqToSet(sorted) :
                            /\ z.reallocationPriority > AggZipThreshold
                            /\ DmaGuard(z, dmaZipCounts)}), AggTopZips)

\* A mutant: the visits of the excluded rows are not taken out.
calcProjKeepVisits(items, summary) ==
    LET excImps == Sum(items, "impressions")
        baseline == summary.overallVisitRate
        newRate == [n |-> summary.totalVisits,
                    d |-> summary.totalImpressions - excImps]
    IN  [newRate |-> newRate,
         improvement |-> [newRate |-> newRate, baseline |-> baseline],
         excImps |-> excImps]

\* calcProj(items):
\*   newRate = (totalVisits - excVisits) / (totalImps - excImps)
\*   improvement = ((newRate / baseline) - 1) * 100
\* The quotients are not evaluated: newRate is kept as numerator and
\* denominator, and improvement as the newRate and the baseline it is
\* ((newRate / baseline) - 1) * 100 of.  A denominator of 0, and a baseline
\* of 0, is JavaScript's Infinity or NaN.
calcProj(items, summary) ==
    LET excImps == Sum(items, "impressions")
        excVisits == Sum(items, "visits")
        baseline == summary.overallVisitRate
        newRate == [n |-> summary.totalVisits - excVisits,
                    d |-> summary.totalImpressions - excImps]
    IN  [newRate |-> newRate,
         improvement |-> [newRate |-> newRate, baseline |-> baseline],
         excImps |-> excImps]

\* { ...calcProj(items), count: items.length, items }
Recommendation(items, summary) ==
    LET proj == calcProj(items, summary)
    IN  [newRate |-> proj.newRate, improvement |-> proj.improvement,
         excImps |-> proj.excImps, count |-> Len(items), items |-> items]

\* data before the first analysis, and pubRecommendations without publishers
Null == [type |-> "null"]

\* (row.reallocationPriority || row.index || 0), what DataTable orders its
\* rows by: the priority of a row that has one other than 0, else its index.
TableKey(row) ==
    IF "reallocationPriority" \in DOMAIN row /\ row.reallocationPriority # 0
    THEN row.reallocationPriority
    ELSE IF "index" \in DOMAIN row /\ row.index # 0 THEN row.index
    ELSE 0

\* data.sort((a, b) => (b.reallocationPriority || b.index || 0)
\*                       - (a.reallocationPriority || a.index || 0))
\* of DataTable: the array it is handed, put in descending order where it
\* is; rows of equal key keep the order they had.
SortTable(rows) ==
    LET n == Len(rows)
        Before(j, i) ==
            \/ TableKey(rows[j]) > TableKey(rows[i])
            \/ TableKey(rows[j]) = TableKey(rows[i]) /\ j < i
        pos == [i \in 1..n |-> 1 + Cardinality({j \in 1..n : Before(j, i)})]
    IN  [k \in 1..n |-> rows[CHOOSE i \in 1..n : pos[i] = k]]

\* The result as it is after it has been rendered: the tables of campaigns,
\* of publishers (store visits) or contexts (web visits) and of ZIP codes
\* are DataTables of the arrays of the result themselves, which they sort;
\* the table of traffic sources is handed a copy.
Rendered(result) ==
    [result EXCEPT
        !.campaigns = SortTable(@),
        !.publishers = IF result.type = "store_visits" THEN SortTable(@) ELSE @,
        !.contexts = IF result.type = "web_visits" THEN SortTable(@) ELSE @,
        !.zipCodes = SortTable(@)]

\* The object handed to setData by the timeout callback of analyzeData.
Analysis(advData, agency) ==
    LET isWebVisits == agency = "1480"
        publishers == EnrichPublishers(advData)
        zipCodes == EnrichZips(advData)
        sPubs == sortedPubs(publishers)
        sZips == sortedZips(zipCodes)
        dmaZipCounts == OrElse(advData, "dmaZipCounts", <<>>)
    IN  [type |-> IF isWebVisits THEN "web_visits" ELSE "store_visits",
         summary |-> advData.summary,
         campaigns |-> EnrichCampaigns(advData),
         publishers |-> IF isWebVisits THEN <<>> ELSE publishers,
         contexts |-> IF isWebVisits THEN publishers ELSE <<>>,
         zipCodes |-> zipCodes,
         trafficSources |-> OrElse(advData, "trafficSources", <<>>),
         noPublisherData |-> OrElse(advData, "noPublisherData", FALSE),
         pubRecommendations |->
             IF Len(publishers) > 0
             THEN [conservative |-> Recommendation(consPubs(sPubs), advData.summary),
                   aggressive |-> Recommendation(aggPubs(sPubs), advData.summary)]
             ELSE Null,
         geoRecommendations |->
             [conservative |-> Recommendation(consZips(sZips, dmaZipCounts),
                                              advData.summary),
              aggressive |-> Recommendation(aggZips(sZips, dmaZipCounts),
                                            advData.summary)]]

-----------------------------------------------------------------------------
(* LIFT ANALYSIS: the household join and the lift *)

MaxExposed == 2
MaxVisitors == 2
MaxControl == 2

\* Impression DEVICE_ID_RAW is a real UUID; attribution MAIDs are mostly
\* synthetic (MAID_SOURCE = 'IP_ENRICHED').
RealId(n) == [source |-> "REAL", id |-> n]
SyntheticId(n) == [source |-> "IP_ENRICHED", id |-> n]

Ips == {1, 2}
Households == {1, 2}

\* Exposed impressions: (DEVICE_ID_RAW, IP).
ImpressionRows == [device_id : {RealId(1), RealId(2)}, ip : Ips]

\* Attribution visitors: (MAID, HOUSEHOLD_ID).
VisitorRows == [maid : {RealId(1), SyntheticId(1)}, household_id : Households]

\* IP_HOUSEHOLD_LOOKUP, IP -> HOUSEHOLD_ID, for some of the IPs.
Lookups == {<<>>, (1 :> 1), (1 :> 1) @@ (2 :> 2), (1 :> 2) @@ (2 :> 2)}

\* The control cohort: households and the visitors among them.
ControlCohorts ==
    {c \in [households : 1..MaxControl, visitors : 0..MaxControl] :
        c.visitors <= c.households}

\* Impression IP -> IP_HOUSEHOLD_LOOKUP -> HOUSEHOLD_ID; 0 when the IP does
\* not resolve.
HouseholdOf(row, lookup) ==
    IF row.ip \in DOMAIN lookup THEN lookup[row.ip] ELSE 0

\* The household-level view, unmatched count, device-level view and exposed
\* cohort, given the set of the indexes of the rows that match.
JoinResult(imps, lookup, matched) ==
    LET rows == [i \in DOMAIN imps |->
                    [device_id |-> imps[i].device_id, ip |-> imps[i].ip,
                     household_id |-> HouseholdOf(imps[i], lookup)]]
        view == [k \in 1..Cardinality(matched) |->
                    rows[CHOOSE i \in matched :
                             Cardinality({j \in matched : j <= i}) = k]]
    IN  [household_view |-> view,
         unmatched_count |-> Len(imps) - Len(view),
         device_view |-> imps,
         exposed |->
             [households |-> Cardinality({rows[i].household_id : i \in DOMAIN rows} \ {0}),
              visitors |-> Cardinality({view[i].household_id : i \in DOMAIN view}),
              matched |-> Len(view)]]

\* A mutant: the join on the raw device identifier,
\*   exposed_devices e LEFT JOIN adv_web_visit_days wv ON wv.device_id = e.device_id
householdJoinOnDevice(imps, lookup, visitors) ==
    JoinResult(imps, lookup,
               {i \in DOMAIN imps :
                   \E j \in DOMAIN visitors : visitors[j].maid = imps[i].device_id})

\* The household-level join: an impression row matches when its IP resolves
\* to a household that a visitor row carries.
householdJoin(imps, lookup, visitors) ==
    JoinResult(imps, lookup,
               {i \in DOMAIN imps :
                   \E j \in DOMAIN visitors :
                       visitors[j].household_id = HouseholdOf(imps[i], lookup)})

\* lift_pct = ((exposed_rate - control_rate) / control_rate) * 100, as the
\* fraction n / d, with exposed_rate = visitors / households of the exposed
\* cohort and likewise for the control cohort.
LiftPct(exposed, control) ==
    [n |-> 100 * (exposed.visitors * control.households
                    - control.visitors * exposed.households),
     d |-> control.visitors * exposed.households]

\* A mutant: a control rate of 0 gives the lift 0.
liftZeroWithoutControl(exposed, control) ==
    IF exposed.matched = 0
    THEN [ok |-> FALSE, reason |-> "IdentityUnresolved"]
    ELSE IF control.visitors = 0
    THEN [ok |-> TRUE, reason |-> "", lift_pct |-> [n |-> 0, d |-> 1]]
    ELSE [ok |-> TRUE, reason |-> "", lift_pct |-> LiftPct(exposed, control)]

\* A mutant: the lift is computed whatever the resolution rate.
liftUnresolved(exposed, control) ==
    IF control.visitors = 0
    THEN [ok |-> FALSE, reason |-> "ZeroControlRate"]
    ELSE [ok |-> TRUE, reason |-> "", lift_pct |-> LiftPct(exposed, control)]

\* lift(exposed_cohort, control_cohort) -> LiftResult or a typed failure.
lift(exposed, control) ==
    IF exposed.matched = 0
    THEN [ok |-> FALSE, reason |-> "IdentityUnresolved"]
    ELSE IF control.visitors = 0
    THEN [ok |-> FALSE, reason |-> "ZeroControlRate"]
    ELSE [ok |-> TRUE, reason |-> "", lift_pct |-> LiftPct(exposed, control)]

-----------------------------------------------------------------------------
(* Specifications *)

NoRequest == [pt |-> -1, agency_id |-> -1, advertiser_id |-> -1]

ResolveIdle ==
    /\ ptConfig = NoConfig
    /\ agencyConfig = NoConfig
    /\ advertiserConfig = NoConfig
    /\ cfgReq = NoRequest
    /\ cfgOut = Resolve(NoConfig, NoConfig, NoConfig, -1, -1, -1)

DedupeIdle ==
    /\ flags = <<>>
    /\ credited = <<>>
    /\ recredited = <<>>

ScoreIdle ==
    /\ scoreIn = [a |-> [impressions |-> 0, visitRate |-> Rate(0)],
                  b |-> [impressions |-> 0, visitRate |-> Rate(0)],
                  baseline |-> Rate(0), totalImpressions |-> 1]
    /\ scoreOut = [a |-> 0, b |-> 0, indexA |-> 0, indexB |-> 0]

UiIdle ==
    /\ advertiserData = <<>>
    /\ selectedAgency = ""
    /\ selectedAdvertiser = ""
    /\ expandedAgency = ""
    /\ advertisers = <<>>
    /\ loading = FALSE
    /\ data = Null
    /\ timers = <<>>
    /\ pendingUpdates = <<>>

NoCohort == [households |-> 0, visitors |-> 0, matched |-> 0]

LiftIdle ==
    /\ liftIn = [impressions |-> <<>>, lookup |-> <<>>, visitors |-> <<>>,
                 control |-> NoCohort]
    /\ joinOut = [household_view |-> <<>>, unmatched_count |-> 0,
                  device_view |-> <<>>, exposed |-> NoCohort]
    /\ liftOut = [ok |-> FALSE, reason |-> "none"]

(* dedupe *)

DedupeInit ==
    /\ pc = "dedupe_in"
    /\ \E ids \in IdLists : flags \in FlagLists(ids)
    /\ credited = <<>>
    /\ recredited = <<>>
    /\ ResolveIdle
    /\ ScoreIdle
    /\ UiIdle
    /\ LiftIdle

Dedupe ==
    /\ pc = "dedupe_in"
    /\ credited' \in DedupeOutcomes(flags)
    /\ pc' = "dedupe_out"
    /\ UNCHANGED <<flags, recredited, resolveVars, scoreVars, uiVars, liftVars>>

\* The same query over its own result.
Rerun ==
    /\ pc = "dedupe_out"
    /\ recredited' \in DedupeOutcomes(credited)
    /\ pc' = "dedupe_again"
    /\ UNCHANGED <<flags, credited, resolveVars, scoreVars, uiVars, liftVars>>

DedupeNext == Dedupe \/ Rerun

SpecDedupe == DedupeInit /\ [][DedupeNext]_vars

(* resolve *)

ResolveInit ==
    /\ pc = "resolve_in"
    /\ ptConfig \in TablesOver(KnownPTs, FullConfigs)
    /\ agencyConfig \in TablesOver(KnownAgencies, PartialConfigs)
    /\ advertiserConfig \in TablesOver(KnownAdvertisers, PartialConfigs)
    /\ cfgReq = NoRequest
    /\ cfgOut = Resolve(NoConfig, NoConfig, NoConfig, -1, -1, -1)
    /\ DedupeIdle
    /\ ScoreIdle
    /\ UiIdle
    /\ LiftIdle

\* GET /api/config/resolve?pt=..&agency_id=..&advertiser_id=..
ResolveRequest ==
    /\ pc \in {"resolve_in", "resolve_out"}
    /\ \E pt \in PtArgs, ag \in AgencyArgs, adv \in AdvertiserArgs :
          /\ cfgReq' = [pt |-> pt, agency_id |-> ag, advertiser_id |-> adv]
          /\ cfgOut' = Resolve(ptConfig, agencyConfig, advertiserConfig, pt, ag, adv)
    /\ pc' = "resolve_out"
    /\ UNCHANGED <<ptConfig, agencyConfig, advertiserConfig, dedupeVars, scoreVars, uiVars, liftVars>>

SpecResolve == ResolveInit /\ [][ResolveRequest]_vars

(* calcPriority *)

\* A row of 1,000,000 impressions at the visit rate 0.001, of 2,000,000
\* impressions in all, against the baseline 0.004.
ScoreScenario ==
    [a |-> [impressions |-> 1000000, visitRate |-> Rate(1)],
     b |-> [impressions |-> 1000000, visitRate |-> Rate(1)],
     baseline |-> Rate(4), totalImpressions |-> 2000000]

ScoreInit ==
    /\ pc = "score_in"
    /\ \/ scoreIn \in [a : ScoreItems, b : ScoreItems,
                       baseline : {Rate(n) : n \in 0..MaxScoreRate},
                       totalImpressions : 1..MaxScoreTotal]
       \/ scoreIn = ScoreScenario
    /\ scoreOut = [a |-> 0, b |-> 0, indexA |-> 0, indexB |-> 0]
    /\ DedupeIdle
    /\ ResolveIdle
    /\ UiIdle
    /\ LiftIdle

Score ==
    /\ pc = "score_in"
    /\ scoreOut' = [a |-> calcPriority(scoreIn.a, scoreIn.baseline, scoreIn.totalImpressions),
                    b |-> calcPriority(scoreIn.b, scoreIn.baseline, scoreIn.totalImpressions),
                    indexA |-> calcIndex(scoreIn.a.visitRate, scoreIn.baseline),
                    indexB |-> calcIndex(scoreIn.b.visitRate, scoreIn.baseline)]
    /\ pc' = "score_out"
    /\ UNCHANGED <<scoreIn, dedupeVars, resolveVars, uiVars, liftVars>>

SpecScore == ScoreInit /\ [][Score]_vars

(* analyzeData *)

\* realAgencies, rows [id, name, type] of which the optimizer reads the id
\* (the name and the type are shown only): MNTN, Magnite and Causal iQ,
\* of type Store, and ViacomCBS WhoSay, of type Web.
realAgencies == <<"2514", "2234", "1813", "1480">>

\* realAdvertisers, rows [id, name] of which the optimizer reads the id.
realAdvertisers ==
    ("2514" :> <<"45143", "27828", "37704", "45346", "32623">>)
        @@ ("2234" :> <<"40143", "39323">>)
        @@ ("1813" :> <<"45141", "8123", "27588", "7389">>)
        @@ ("1480" :> <<"40514">>)

\* A call of a state setter, as it waits in the queue of updates.
SetData(value) == [setter |-> "setData", value |-> value]
SetLoading(value) == [setter |-> "setLoading", value |-> value]

\* An update made by a click handler is rendered at once; while updates of
\* a timer callback wait to be rendered it is queued behind them as well,
\* and is applied again, after them, when they are rendered.  A call that
\* repeats the last call of the queue leaves the queue as it is: the queue
\* holds the calls up to such repetitions.
Rebased(queue, update) ==
    IF queue = <<>> THEN <<>>
    ELSE IF /\ queue[Len(queue)].setter = update.setter
            /\ queue[Len(queue)].value = update.value
    THEN queue
    ELSE Append(queue, update)

\* The value the last call of setter in the queue leaves, current without
\* such a call.
LastValue(queue, setter, current) ==
    LET calls == {i \in DOMAIN queue : queue[i].setter = setter}
    IN  IF calls = {} THEN current
        ELSE queue[CHOOSE i \in calls : \A j \in calls : j <= i].value

\* analyzeData from an Analyze button that stays enabled while loading.
analyzeDataWhileLoading ==
    /\ pc = "ui"
    /\ selectedAdvertiser # ""
    /\ loading' = TRUE
    /\ timers' = Append(timers, [selectedAdvertiser |-> selectedAdvertiser,
                                 selectedAgency |-> selectedAgency])
    /\ pendingUpdates' = Rebased(pendingUpdates, SetLoading(TRUE))
    /\ UNCHANGED <<pc, advertiserData, selectedAgency, selectedAdvertiser, expandedAgency,
                   advertisers, data, dedupeVars, resolveVars, scoreVars, liftVars>>

\* analyzeData, from the Analyze button (disabled={!selectedAdvertiser || loading}):
\*   if (!selectedAdvertiser) return; setLoading(true); setTimeout(..., 600)
analyzeData ==
    /\ pc = "ui"
    /\ selectedAdvertiser # ""
    /\ ~loading
    /\ loading' = TRUE
    /\ timers' = Append(timers, [selectedAdvertiser |-> selectedAdvertiser,
                                 selectedAgency |-> selectedAgency])
    /\ pendingUpdates' = Rebased(pendingUpdates, SetLoading(TRUE))
    /\ UNCHANGED <<pc, advertiserData, selectedAgency, selectedAdvertiser, expandedAgency,
                   advertisers, data, dedupeVars, resolveVars, scoreVars, liftVars>>

\* The callback without its last statement, setLoading(false).
TimeoutCallbackKeepsLoading ==
    /\ pc = "ui"
    /\ timers # <<>>
    /\ LET t == Head(timers)
       IN  pendingUpdates' =
               IF t.selectedAdvertiser \in DOMAIN advertiserData
               THEN Append(pendingUpdates,
                           SetData(Analysis(advertiserData[t.selectedAdvertiser],
                                            t.selectedAgency)))
               ELSE Append(pendingUpdates, SetLoading(FALSE))
    /\ timers' = Tail(timers)
    /\ UNCHANGED <<pc, advertiserData, selectedAgency, selectedAdvertiser, expandedAgency,
                   advertisers, loading, data, dedupeVars, resolveVars, scoreVars,
                   liftVars>>

\* The callback of the oldest timer:
\*   advData = advertiserData[selectedAdvertiser];
\*   if (!advData) { setLoading(false); return; }  ...  setData({...}); setLoading(false)
\* A timer callback runs outside the handlers of React, and its updates are
\* queued: the state that is shown changes when they are rendered.
TimeoutCallback ==
    /\ pc = "ui"
    /\ timers # <<>>
    /\ LET t == Head(timers)
       IN  pendingUpdates' =
               IF t.selectedAdvertiser \in DOMAIN advertiserData
               THEN pendingUpdates
                        \o <<SetData(Analysis(advertiserData[t.selectedAdvertiser],
                                              t.selectedAgency)),
                             SetLoading(FALSE)>>
               ELSE Append(pendingUpdates, SetLoading(FALSE))
    /\ timers' = Tail(timers)
    /\ UNCHANGED <<pc, advertiserData, selectedAgency, selectedAdvertiser, expandedAgency,
                   advertisers, loading, data, dedupeVars, resolveVars, scoreVars,
                   liftVars>>

\* The queued updates are rendered: each state takes the value of the last
\* call of its setter, and a result that is shown has its tables sorted
\* where they are by the DataTables drawn from it.
Render ==
    /\ pc = "ui"
    /\ pendingUpdates # <<>>
    /\ data' = IF LastValue(pendingUpdates, "setData", Null) = Null
               THEN LastValue(pendingUpdates, "setData", data)
               ELSE Rendered(LastValue(pendingUpdates, "setData", Null))
    /\ loading' = LastValue(pendingUpdates, "setLoading", loading)
    /\ pendingUpdates' = <<>>
    /\ UNCHANGED <<pc, advertiserData, selectedAgency, selectedAdvertiser, expandedAgency,
                   advertisers, timers, dedupeVars, resolveVars, scoreVars, liftVars>>

(***************************************************************************)
(* The sidebar of the optimizer (SpecUi): agencies, advertisers, Analyze   *)
(***************************************************************************)

\* The set of the elements of a list.
Listed(list) == {list[i] : i \in DOMAIN list}

\* The data store of the optimizer, advertiserData: the record of every
\* advertiser of realAdvertisers, key by key and row by row as the code has
\* it.  A decimal fraction is the fraction it is written as: 0.00395 is
\* [n |-> 395, d |-> 100000].
Advertiser45143 ==
    [summary |->
        [totalImpressions |-> 7624633, totalVisits |-> 30157,
         overallVisitRate |-> [n |-> 395, d |-> 100000], liftVsControl |-> [n |-> 183, d |-> 10]],
     campaigns |->
        <<[name |-> "2025 - Priority - Denver", impressions |-> 1222663, visits |-> 8661, visitRate |-> [n |-> 7084, d |-> 1000000]],
          [name |-> "2025 - Priority - Chicago", impressions |-> 1183200, visits |-> 3249, visitRate |-> [n |-> 2746, d |-> 1000000]],
          [name |-> "2025 - Priority - Minneapolis-StPaul", impressions |-> 679792, visits |-> 4855, visitRate |-> [n |-> 7142, d |-> 1000000]],
          [name |-> "2025 - Priority - Retargeting", impressions |-> 639548, visits |-> 1688, visitRate |-> [n |-> 2639, d |-> 1000000]],
          [name |-> "2025 - Secondary - Washington DC", impressions |-> 546210, visits |-> 961, visitRate |-> [n |-> 1759, d |-> 1000000]],
          [name |-> "2025 - Secondary - Wisconsin", impressions |-> 526563, visits |-> 6223, visitRate |-> [n |-> 11818, d |-> 1000000]],
          [name |-> "2025 - Secondary - Baltimore", impressions |-> 334246, visits |-> 78, visitRate |-> [n |-> 233, d |-> 1000000]],
          [name |-> "2025 - Remaining Markets", impressions |-> 319002, visits |-> 1915, visitRate |-> [n |-> 6003, d |-> 1000000]]>>,
     publishers |->
        <<[code |-> "HBO Max", impressions |-> 1974033, visits |-> 922, visitRate |-> [n |-> 467, d |-> 1000000]],
          [code |-> "NBC", impressions |-> 1872428, visits |-> 938, visitRate |-> [n |-> 501, d |-> 1000000]],
          [code |-> "Paramount Streaming - Comedy", impressions |-> 1274774, visits |-> 633, visitRate |-> [n |-> 497, d |-> 1000000]],
          [code |-> "Paramount Streaming - Drama", impressions |-> 1185666, visits |-> 576, visitRate |-> [n |-> 486, d |-> 1000000]],
          [code |-> "Paramount Streaming - News", impressions |-> 737080, visits |-> 452, visitRate |-> [n |-> 613, d |-> 1000000]],
          [code |-> "Paramount Streaming - Action-Thriller", impressions |-> 640642, visits |-> 325, visitRate |-> [n |-> 507, d |-> 1000000]],
          [code |-> "Paramount Streaming - Reality", impressions |-> 502100, visits |-> 273, visitRate |-> [n |-> 544, d |-> 1000000]],
          [code |-> "Tubi Entertainment", impressions |-> 475965, visits |-> 188, visitRate |-> [n |-> 395, d |-> 1000000]],
          [code |-> "TLC", impressions |-> 324575, visits |-> 93, visitRate |-> [n |-> 287, d |-> 1000000]],
          [code |-> "Paramount Streaming - Sci-Fi", impressions |-> 321660, visits |-> 190, visitRate |-> [n |-> 591, d |-> 1000000]],
          [code |-> "Paramount Streaming - Documentary", impressions |-> 246090, visits |-> 168, visitRate |-> [n |-> 683, d |-> 1000000]],
          [code |-> "Paramount Streaming - Sports", impressions |-> 221269, visits |-> 198, visitRate |-> [n |-> 895, d |-> 1000000]],
          [code |-> "Discovery Channel", impressions |-> 138923, visits |-> 110, visitRate |-> [n |-> 792, d |-> 1000000]]>>,
     zipCodes |->
        <<[zip |-> "80208", dma |-> "DENVER", population |-> 26592, impressions |-> 263564, visits |-> 1892],
          [zip |-> "55440", dma |-> "MINNEAPOLIS - ST. PAUL", population |-> 8996, impressions |-> 231766, visits |-> 1583],
          [zip |-> "60666", dma |-> "CHICAGO", population |-> 9926, impressions |-> 217402, visits |-> 474],
          [zip |-> "20068", dma |-> "WASHINGTON, DC", population |-> 2207, impressions |-> 171308, visits |-> 267],
          [zip |-> "50981", dma |-> "DES MOINES - AMES", population |-> 2026, impressions |-> 142151, visits |-> 0],
          [zip |-> "21215", dma |-> "BALTIMORE", population |-> 58448, impressions |-> 135857, visits |-> 41],
          [zip |-> "80001", dma |-> "DENVER", population |-> 22, impressions |-> 131503, visits |-> 798],
          [zip |-> "21203", dma |-> "BALTIMORE", population |-> 21010, impressions |-> 114418, visits |-> 6],
          [zip |-> "20147", dma |-> "WASHINGTON, DC", population |-> 64197, impressions |-> 110484, visits |-> 235],
          [zip |-> "60126", dma |-> "CHICAGO", population |-> 48410, impressions |-> 107495, visits |-> 226],
          [zip |-> "80040", dma |-> "DENVER", population |-> 25323, impressions |-> 93129, visits |-> 483],
          [zip |-> "60701", dma |-> "CHICAGO", population |-> 9926, impressions |-> 93061, visits |-> 61],
          [zip |-> "80160", dma |-> "DENVER", population |-> 33603, impressions |-> 90229, visits |-> 591],
          [zip |-> "60056", dma |-> "CHICAGO", population |-> 55250, impressions |-> 81795, visits |-> 178],
          [zip |-> "80523", dma |-> "DENVER", population |-> 37076, impressions |-> 72863, visits |-> 377]>>,
     dmaZipCounts |->
        ("CHICAGO" :> 362)
            @@ ("DENVER" :> 237)
            @@ ("MINNEAPOLIS - ST. PAUL" :> 247)
            @@ ("WASHINGTON, DC" :> 294)
            @@ ("BALTIMORE" :> 117)
            @@ ("DES MOINES - AMES" :> 51)]

Advertiser27828 ==
    [summary |->
        [totalImpressions |-> 53674711, totalVisits |-> 122629,
         overallVisitRate |-> [n |-> 229, d |-> 100000], liftVsControl |-> [n |-> 285, d |-> 10]],
     campaigns |->
        <<[id |-> "fw1", name |-> "First Watch - Southeast", impressions |-> 18500000, visits |-> 45200, visitRate |-> [n |-> 244, d |-> 100000]],
          [id |-> "fw2", name |-> "First Watch - Midwest", impressions |-> 15200000, visits |-> 38100, visitRate |-> [n |-> 251, d |-> 100000]],
          [id |-> "fw3", name |-> "First Watch - Southwest", impressions |-> 12800000, visits |-> 28400, visitRate |-> [n |-> 222, d |-> 100000]],
          [id |-> "fw4", name |-> "First Watch - Northeast", impressions |-> 7174711, visits |-> 10929, visitRate |-> [n |-> 152, d |-> 100000]]>>,
     publishers |->
        <<[code |-> "Samsung TV+ Entertainment", impressions |-> 83695, visits |-> 121018, visitRate |-> [n |-> 1446, d |-> 10000]],
          [code |-> "Samsung TV+ Reality", impressions |-> 38619, visits |-> 55324, visitRate |-> [n |-> 1432, d |-> 10000]],
          [code |-> "Samsung TV+ News", impressions |-> 37551, visits |-> 52215, visitRate |-> [n |-> 1391, d |-> 10000]],
          [code |-> "Vizio Documentary", impressions |-> 31925, visits |-> 45727, visitRate |-> [n |-> 1432, d |-> 10000]],
          [code |-> "Paramount Streaming - Drama", impressions |-> 30156, visits |-> 41675, visitRate |-> [n |-> 1382, d |-> 10000]],
          [code |-> "Paramount Streaming - Comedy", impressions |-> 27870, visits |-> 38702, visitRate |-> [n |-> 1389, d |-> 10000]],
          [code |-> "Tubi Entertainment", impressions |-> 23505, visits |-> 32942, visitRate |-> [n |-> 1401, d |-> 10000]],
          [code |-> "Roku News", impressions |-> 21926, visits |-> 30779, visitRate |-> [n |-> 1404, d |-> 10000]]>>,
     zipCodes |->
        <<[zip |-> "85001", dma |-> "PHOENIX (PRESCOTT)", population |-> 52100, impressions |-> 175675, visits |-> 33466],
          [zip |-> "32802", dma |-> "ORLANDO - DAYTONA BCH - MELBRN", population |-> 38500, impressions |-> 44289, visits |-> 6586],
          [zip |-> "33606", dma |-> "TAMPA - ST. PETE (SARASOTA)", population |-> 28400, impressions |-> 23594, visits |-> 3312],
          [zip |-> "33102", dma |-> "MIAMI - FT. LAUDERDALE", population |-> 41200, impressions |-> 15913, visits |-> 1386],
          [zip |-> "85285", dma |-> "PHOENIX (PRESCOTT)", population |-> 18500, impressions |-> 13718, visits |-> 344],
          [zip |-> "32256", dma |-> "JACKSONVILLE", population |-> 32100, impressions |-> 12891, visits |-> 1426],
          [zip |-> "33511", dma |-> "TAMPA - ST. PETE (SARASOTA)", population |-> 24600, impressions |-> 11583, visits |-> 1525],
          [zip |-> "33074", dma |-> "MIAMI - FT. LAUDERDALE", population |-> 19800, impressions |-> 11169, visits |-> 1948]>>,
     dmaZipCounts |->
        ("PHOENIX (PRESCOTT)" :> 145)
            @@ ("ORLANDO - DAYTONA BCH - MELBRN" :> 112)
            @@ ("TAMPA - ST. PETE (SARASOTA)" :> 125)
            @@ ("MIAMI - FT. LAUDERDALE" :> 156)
            @@ ("JACKSONVILLE" :> 76)]

Advertiser37704 ==
    [summary |->
        [totalImpressions |-> 30723733, totalVisits |-> 89377,
         overallVisitRate |-> [n |-> 291, d |-> 100000], liftVsControl |-> [n |-> 352, d |-> 10]],
     campaigns |->
        <<[id |-> "sz1", name |-> "Sky Zone - Family Weekend", impressions |-> 12500000, visits |-> 41250, visitRate |-> [n |-> 330, d |-> 100000]],
          [id |-> "sz2", name |-> "Sky Zone - Birthday Parties", impressions |-> 9800000, visits |-> 28420, visitRate |-> [n |-> 290, d |-> 100000]],
          [id |-> "sz3", name |-> "Sky Zone - Summer Promo", impressions |-> 5423733, visits |-> 13017, visitRate |-> [n |-> 240, d |-> 100000]],
          [id |-> "sz4", name |-> "Sky Zone - Retargeting", impressions |-> 3000000, visits |-> 6690, visitRate |-> [n |-> 223, d |-> 100000]]>>,
     publishers |->
        <<[code |-> "Tubi Entertainment", impressions |-> 20694, visits |-> 35254, visitRate |-> [n |-> 1703, d |-> 10000]],
          [code |-> "Roku News", impressions |-> 10676, visits |-> 18343, visitRate |-> [n |-> 1718, d |-> 10000]],
          [code |-> "Paramount Streaming - Comedy", impressions |-> 8720, visits |-> 15055, visitRate |-> [n |-> 1727, d |-> 10000]],
          [code |-> "Samsung TV+ Entertainment", impressions |-> 8366, visits |-> 13964, visitRate |-> [n |-> 1669, d |-> 10000]],
          [code |-> "Paramount Streaming - Drama", impressions |-> 6570, visits |-> 11148, visitRate |-> [n |-> 1697, d |-> 10000]],
          [code |-> "Paramount Streaming - Action-Thriller", impressions |-> 6473, visits |-> 10988, visitRate |-> [n |-> 1698, d |-> 10000]],
          [code |-> "Vizio Documentary", impressions |-> 5328, visits |-> 9740, visitRate |-> [n |-> 1828, d |-> 10000]],
          [code |-> "Roku Drama", impressions |-> 4911, visits |-> 7970, visitRate |-> [n |-> 1623, d |-> 10000]]>>,
     zipCodes |->
        <<[zip |-> "60430", dma |-> "CHICAGO", population |-> 45600, impressions |-> 5266, visits |-> 1579],
          [zip |-> "10123", dma |-> "NEW YORK", population |-> 45600, impressions |-> 4893, visits |-> 1586],
          [zip |-> "85001", dma |-> "PHOENIX (PRESCOTT)", population |-> 52100, impressions |-> 4250, visits |-> 2445],
          [zip |-> "98111", dma |-> "SEATTLE - TACOMA", population |-> 24800, impressions |-> 3998, visits |-> 388],
          [zip |-> "30901", dma |-> "AUGUSTA", population |-> 18500, impressions |-> 3541, visits |-> 673],
          [zip |-> "28602", dma |-> "CHARLOTTE", population |-> 35200, impressions |-> 3061, visits |-> 571],
          [zip |-> "83707", dma |-> "BOISE", population |-> 15600, impressions |-> 2976, visits |-> 779],
          [zip |-> "30302", dma |-> "ATLANTA", population |-> 12500, impressions |-> 2635, visits |-> 630]>>,
     dmaZipCounts |->
        ("CHICAGO" :> 186)
            @@ ("NEW YORK" :> 331)
            @@ ("PHOENIX (PRESCOTT)" :> 145)
            @@ ("SEATTLE - TACOMA" :> 89)
            @@ ("AUGUSTA" :> 42)
            @@ ("CHARLOTTE" :> 78)
            @@ ("BOISE" :> 35)
            @@ ("ATLANTA" :> 134)]

Advertiser45346 ==
    [summary |->
        [totalImpressions |-> 44421118, totalVisits |-> 33971,
         overallVisitRate |-> [n |-> 77, d |-> 100000], liftVsControl |-> [n |-> 189, d |-> 10]],
     campaigns |->
        <<[id |-> "nt1", name |-> "Northern Tool - Power Equipment", impressions |-> 18000000, visits |-> 14400, visitRate |-> [n |-> 80, d |-> 100000]],
          [id |-> "nt2", name |-> "Northern Tool - Generators", impressions |-> 14500000, visits |-> 10875, visitRate |-> [n |-> 75, d |-> 100000]],
          [id |-> "nt3", name |-> "Northern Tool - Retargeting", impressions |-> 11921118, visits |-> 8696, visitRate |-> [n |-> 73, d |-> 100000]]>>,
     publishers |->
        <<[code |-> "NBC", impressions |-> 31360, visits |-> 44082, visitRate |-> [n |-> 1406, d |-> 10000]],
          [code |-> "HBO Max", impressions |-> 12749, visits |-> 17467, visitRate |-> [n |-> 1370, d |-> 10000]],
          [code |-> "Peacock", impressions |-> 10135, visits |-> 14758, visitRate |-> [n |-> 1456, d |-> 10000]],
          [code |-> "Paramount Streaming - Comedy", impressions |-> 9447, visits |-> 13466, visitRate |-> [n |-> 1426, d |-> 10000]],
          [code |-> "Tubi Entertainment", impressions |-> 7765, visits |-> 11002, visitRate |-> [n |-> 1417, d |-> 10000]],
          [code |-> "Paramount Streaming - Drama", impressions |-> 7746, visits |-> 10576, visitRate |-> [n |-> 1365, d |-> 10000]],
          [code |-> "Paramount Streaming - Action-Thriller", impressions |-> 7101, visits |-> 9566, visitRate |-> [n |-> 1347, d |-> 10000]],
          [code |-> "Roku News", impressions |-> 5737, visits |-> 8218, visitRate |-> [n |-> 1432, d |-> 10000]]>>,
     zipCodes |->
        <<[zip |-> "55440", dma |-> "MINNEAPOLIS - ST. PAUL", population |-> 8996, impressions |-> 7813, visits |-> 821],
          [zip |-> "75270", dma |-> "DALLAS - FT. WORTH", population |-> 15234, impressions |-> 7186, visits |-> 867],
          [zip |-> "77052", dma |-> "HOUSTON", population |-> 22456, impressions |-> 6461, visits |-> 910],
          [zip |-> "10123", dma |-> "NEW YORK", population |-> 45600, impressions |-> 6340, visits |-> 276],
          [zip |-> "78427", dma |-> "CORPUS CHRISTI", population |-> 8900, impressions |-> 5405, visits |-> 115],
          [zip |-> "30302", dma |-> "ATLANTA", population |-> 12500, impressions |-> 4355, visits |-> 337],
          [zip |-> "56387", dma |-> "MINNEAPOLIS - ST. PAUL", population |-> 6500, impressions |-> 3809, visits |-> 400],
          [zip |-> "78288", dma |-> "SAN ANTONIO", population |-> 18700, impressions |-> 3181, visits |-> 436]>>,
     dmaZipCounts |->
        ("MINNEAPOLIS - ST. PAUL" :> 145)
            @@ ("DALLAS - FT. WORTH" :> 167)
            @@ ("HOUSTON" :> 178)
            @@ ("NEW YORK" :> 331)
            @@ ("ATLANTA" :> 134)
            @@ ("SAN ANTONIO" :> 98)
            @@ ("CORPUS CHRISTI" :> 45)]

Advertiser32623 ==
    [summary |->
        [totalImpressions |-> 2847416, totalVisits |-> 136150,
         overallVisitRate |-> [n |-> 4782, d |-> 100000], liftVsControl |-> [n |-> 523, d |-> 10]],
     campaigns |->
        <<[id |-> "vp1", name |-> "Visit PA - Winter Campaign", impressions |-> 1200000, visits |-> 60000, visitRate |-> [n |-> 5000, d |-> 100000]],
          [id |-> "vp2", name |-> "Visit PA - Fall Foliage", impressions |-> 950000, visits |-> 42750, visitRate |-> [n |-> 4500, d |-> 100000]],
          [id |-> "vp3", name |-> "Visit PA - Summer Adventures", impressions |-> 697416, visits |-> 33400, visitRate |-> [n |-> 4789, d |-> 100000]]>>,
     publishers |->
        <<[code |-> "easybrain.com", impressions |-> 6193, visits |-> 58309, visitRate |-> [n |-> 9415, d |-> 10000]],
          [code |-> "Tubi Entertainment", impressions |-> 4106, visits |-> 42233, visitRate |-> [n |-> 10286, d |-> 10000]],
          [code |-> "dailymotion.com", impressions |-> 4640, visits |-> 41456, visitRate |-> [n |-> 8934, d |-> 10000]],
          [code |-> "NBC", impressions |-> 5632, visits |-> 40538, visitRate |-> [n |-> 7198, d |-> 10000]],
          [code |-> "msn.com", impressions |-> 4123, visits |-> 36637, visitRate |-> [n |-> 8886, d |-> 10000]],
          [code |-> "bluestacks.com", impressions |-> 2437, visits |-> 36045, visitRate |-> [n |-> 14790, d |-> 10000]],
          [code |-> "dailymail.co.uk", impressions |-> 3373, visits |-> 30739, visitRate |-> [n |-> 9114, d |-> 10000]],
          [code |-> "nypost.com", impressions |-> 3170, visits |-> 30086, visitRate |-> [n |-> 9492, d |-> 10000]]>>,
     zipCodes |->
        <<[zip |-> "20149", dma |-> "WASHINGTON, DC (HAGRSTWN)", population |-> 64197, impressions |-> 169290, visits |-> 8543],
          [zip |-> "10123", dma |-> "NEW YORK", population |-> 45600, impressions |-> 130833, visits |-> 12890],
          [zip |-> "08899", dma |-> "NEW YORK", population |-> 28500, impressions |-> 120206, visits |-> 965],
          [zip |-> "44118", dma |-> "CLEVELAND - AKRON (CANTON)", population |-> 42000, impressions |-> 81046, visits |-> 1641],
          [zip |-> "20068", dma |-> "WASHINGTON, DC (HAGRSTWN)", population |-> 2207, impressions |-> 35929, visits |-> 3226],
          [zip |-> "75270", dma |-> "DALLAS - FT. WORTH", population |-> 15234, impressions |-> 33030, visits |-> 818],
          [zip |-> "11427", dma |-> "NEW YORK", population |-> 35600, impressions |-> 32337, visits |-> 3327],
          [zip |-> "82801", dma |-> "RAPID CITY", population |-> 12500, impressions |-> 28465, visits |-> 589]>>,
     dmaZipCounts |->
        ("WASHINGTON, DC (HAGRSTWN)" :> 294)
            @@ ("NEW YORK" :> 331)
            @@ ("CLEVELAND - AKRON (CANTON)" :> 98)
            @@ ("DALLAS - FT. WORTH" :> 167)
            @@ ("RAPID CITY" :> 25)]

Advertiser40143 ==
    [summary |->
        [totalImpressions |-> 3442122, totalVisits |-> 11220,
         overallVisitRate |-> [n |-> 326, d |-> 100000], liftVsControl |-> [n |-> 221, d |-> 10]],
     campaigns |->
        <<[name |-> "Mountain West Bank 2025 - Aug-Dec", impressions |-> 3442120, visits |-> 11220, visitRate |-> [n |-> 326, d |-> 100000]]>>,
     publishers |->
        <<[code |-> "Samsung Ads", impressions |-> 593518, visits |-> 1936, visitRate |-> [n |-> 326, d |-> 100000]],
          [code |-> "Paramount Global", impressions |-> 525474, visits |-> 1714, visitRate |-> [n |-> 326, d |-> 100000]],
          [code |-> "Warner Bros. Discovery", impressions |-> 419106, visits |-> 1367, visitRate |-> [n |-> 326, d |-> 100000]],
          [code |-> "Sling TV", impressions |-> 351541, visits |-> 1147, visitRate |-> [n |-> 326, d |-> 100000]],
          [code |-> "Fox", impressions |-> 233903, visits |-> 763, visitRate |-> [n |-> 326, d |-> 100000]],
          [code |-> "LG Ads", impressions |-> 236179, visits |-> 770, visitRate |-> [n |-> 326, d |-> 100000]],
          [code |-> "DIRECTV", impressions |-> 103702, visits |-> 338, visitRate |-> [n |-> 326, d |-> 100000]],
          [code |-> "DISH Connected", impressions |-> 90373, visits |-> 295, visitRate |-> [n |-> 326, d |-> 100000]],
          [code |-> "TubiTV", impressions |-> 101634, visits |-> 331, visitRate |-> [n |-> 326, d |-> 100000]],
          [code |-> "A&E", impressions |-> 46121, visits |-> 150, visitRate |-> [n |-> 326, d |-> 100000]],
          [code |-> "AMC", impressions |-> 32762, visits |-> 107, visitRate |-> [n |-> 326, d |-> 100000]]>>,
     zipCodes |->
        <<[zip |-> "83707", dma |-> "BOISE", population |-> 32855, impressions |-> 555637, visits |-> 3042],
          [zip |-> "83686", dma |-> "BOISE", population |-> 47628, impressions |-> 346024, visits |-> 669],
          [zip |-> "83816", dma |-> "SPOKANE", population |-> 34141, impressions |-> 339557, visits |-> 953],
          [zip |-> "83815", dma |-> "SPOKANE", population |-> 34141, impressions |-> 286463, visits |-> 1194],
          [zip |-> "83704", dma |-> "BOISE", population |-> 40385, impressions |-> 194580, visits |-> 429],
          [zip |-> "83844", dma |-> "SPOKANE", population |-> 1906, impressions |-> 160427, visits |-> 1444],
          [zip |-> "68197", dma |-> "OMAHA", population |-> 1526, impressions |-> 157560, visits |-> 229],
          [zip |-> "83805", dma |-> "SPOKANE", population |-> 8075, impressions |-> 104034, visits |-> 664],
          [zip |-> "83854", dma |-> "SPOKANE", population |-> 40905, impressions |-> 93565, visits |-> 305],
          [zip |-> "83714", dma |-> "BOISE", population |-> 21763, impressions |-> 59969, visits |-> 20],
          [zip |-> "83313", dma |-> "TWIN FALLS", population |-> 3789, impressions |-> 55734, visits |-> 164],
          [zip |-> "83861", dma |-> "SPOKANE", population |-> 6426, impressions |-> 48658, visits |-> 481]>>,
     dmaZipCounts |->
        ("BOISE" :> 89)
            @@ ("SPOKANE" :> 67)
            @@ ("TWIN FALLS" :> 23)
            @@ ("OMAHA" :> 12)]

Advertiser39323 ==
    [summary |->
        [totalImpressions |-> 1475798, totalVisits |-> 10516,
         overallVisitRate |-> [n |-> 7126, d |-> 1000000], liftVsControl |-> [n |-> 312, d |-> 10]],
     campaigns |->
        <<[name |-> "Live Sports - Aug 25 - Jan 26", impressions |-> 769918, visits |-> 7314, visitRate |-> [n |-> 95, d |-> 10000]],
          [name |-> "Live Sports - Oct 25 - Jan 26", impressions |-> 705880, visits |-> 3202, visitRate |-> [n |-> 4536, d |-> 1000000]]>>,
     publishers |->
        <<[code |-> "DIRECTV", impressions |-> 869120, visits |-> 6193, visitRate |-> [n |-> 7126, d |-> 1000000]],
          [code |-> "Sling TV", impressions |-> 356455, visits |-> 2540, visitRate |-> [n |-> 7126, d |-> 1000000]],
          [code |-> "fubo.TV", impressions |-> 149091, visits |-> 1062, visitRate |-> [n |-> 7126, d |-> 1000000]],
          [code |-> "Telly", impressions |-> 126965, visits |-> 905, visitRate |-> [n |-> 7126, d |-> 1000000]],
          [code |-> "Flosports", impressions |-> 8125, visits |-> 58, visitRate |-> [n |-> 7126, d |-> 1000000]],
          [code |-> "Charter Spectrum", impressions |-> 5458, visits |-> 39, visitRate |-> [n |-> 7126, d |-> 1000000]]>>,
     zipCodes |->
        <<[zip |-> "30302", dma |-> "ATLANTA", population |-> 28077, impressions |-> 45292, visits |-> 690],
          [zip |-> "75270", dma |-> "DALLAS - FT. WORTH", population |-> 0, impressions |-> 22769, visits |-> 116],
          [zip |-> "20163", dma |-> "WASHINGTON, DC", population |-> 4448, impressions |-> 13032, visits |-> 39],
          [zip |-> "37222", dma |-> "NASHVILLE", population |-> 40425, impressions |-> 10451, visits |-> 49],
          [zip |-> "77052", dma |-> "HOUSTON", population |-> 17052, impressions |-> 10175, visits |-> 21],
          [zip |-> "10123", dma |-> "NEW YORK", population |-> 0, impressions |-> 9643, visits |-> 915],
          [zip |-> "70801", dma |-> "BATON ROUGE", population |-> 85, impressions |-> 7289, visits |-> 89],
          [zip |-> "39157", dma |-> "JACKSON, MS", population |-> 24522, impressions |-> 6967, visits |-> 405],
          [zip |-> "60666", dma |-> "CHICAGO", population |-> 9926, impressions |-> 6685, visits |-> 37],
          [zip |-> "30087", dma |-> "ATLANTA", population |-> 40003, impressions |-> 6590, visits |-> 51]>>,
     dmaZipCounts |->
        ("ATLANTA" :> 45)
            @@ ("DALLAS - FT. WORTH" :> 38)
            @@ ("HOUSTON" :> 32)
            @@ ("NEW YORK" :> 28)
            @@ ("NASHVILLE" :> 22)]

Advertiser45141 ==
    [summary |->
        [totalImpressions |-> 6991269, totalVisits |-> 404283,
         overallVisitRate |-> [n |-> 578, d |-> 10000], liftVsControl |-> [n |-> 321, d |-> 10]],
     campaigns |->
        <<>>,
     contexts |->
        <<[code |-> "mail.yahoo.com", impressions |-> 104784, visits |-> 369361, visitRate |-> [n |-> 352, d |-> 10000]],
          [code |-> "mail.aol.com", impressions |-> 18046, visits |-> 55000, visitRate |-> [n |-> 305, d |-> 10000]],
          [code |-> "6468921495", impressions |-> 9065, visits |-> 36114, visitRate |-> [n |-> 398, d |-> 10000]],
          [code |-> "solitaired.com", impressions |-> 8737, visits |-> 33247, visitRate |-> [n |-> 381, d |-> 10000]],
          [code |-> "com.radio.pocketfm", impressions |-> 6788, visits |-> 35393, visitRate |-> [n |-> 521, d |-> 10000]],
          [code |-> "dtapp.u.gg", impressions |-> 4255, visits |-> 14020, visitRate |-> [n |-> 329, d |-> 10000]],
          [code |-> "www.solitairebliss.com", impressions |-> 2855, visits |-> 9831, visitRate |-> [n |-> 344, d |-> 10000]],
          [code |-> "tunein.player", impressions |-> 2820, visits |-> 15522, visitRate |-> [n |-> 550, d |-> 10000]]>>,
     zipCodes |->
        <<[zip |-> "28202", dma |-> "CHARLOTTE", population |-> 45000, impressions |-> 380000, visits |-> 22800],
          [zip |-> "27601", dma |-> "RALEIGH-DURHAM", population |-> 38000, impressions |-> 320000, visits |-> 18560],
          [zip |-> "30301", dma |-> "ATLANTA", population |-> 55600, impressions |-> 450000, visits |-> 24750],
          [zip |-> "75201", dma |-> "DALLAS", population |-> 48700, impressions |-> 410000, visits |-> 21730],
          [zip |-> "77001", dma |-> "HOUSTON", population |-> 58200, impressions |-> 480000, visits |-> 26400]>>,
     dmaZipCounts |->
        ("CHARLOTTE" :> 89)
            @@ ("RALEIGH-DURHAM" :> 76)
            @@ ("ATLANTA" :> 134)
            @@ ("DALLAS" :> 167)
            @@ ("HOUSTON" :> 178)]

Advertiser8123 ==
    [summary |->
        [totalImpressions |-> 25371271, totalVisits |-> 869868,
         overallVisitRate |-> [n |-> 3429, d |-> 100000], liftVsControl |-> [n |-> 384, d |-> 10]],
     campaigns |->
        <<>>,
     contexts |->
        <<[code |-> "poki.com", impressions |-> 1723, visits |-> 6313, visitRate |-> [n |-> 366, d |-> 10000]],
          [code |-> "www.crazygames.com", impressions |-> 1450, visits |-> 3278, visitRate |-> [n |-> 226, d |-> 10000]],
          [code |-> "spektra.games", impressions |-> 1052, visits |-> 9350, visitRate |-> [n |-> 889, d |-> 10000]],
          [code |-> "spacesurvival.online", impressions |-> 1184, visits |-> 5355, visitRate |-> [n |-> 452, d |-> 10000]],
          [code |-> "www.thingiverse.com", impressions |-> 1044, visits |-> 2313, visitRate |-> [n |-> 222, d |-> 10000]],
          [code |-> "sirstudios.com", impressions |-> 760, visits |-> 91561, visitRate |-> [n |-> 12047, d |-> 10000]],
          [code |-> "lionstudios.cc", impressions |-> 740, visits |-> 3528, visitRate |-> [n |-> 477, d |-> 10000]],
          [code |-> "turborilla.com", impressions |-> 643, visits |-> 4271, visitRate |-> [n |-> 664, d |-> 10000]]>>,
     zipCodes |->
        <<[zip |-> "10123", dma |-> "NEW YORK", population |-> 0, impressions |-> 310823, visits |-> 15704],
          [zip |-> "60666", dma |-> "CHICAGO", population |-> 9926, impressions |-> 198426, visits |-> 9266],
          [zip |-> "85001", dma |-> "PHOENIX", population |-> 44224, impressions |-> 187971, visits |-> 15220],
          [zip |-> "20149", dma |-> "WASHINGTON, DC", population |-> 48110, impressions |-> 135424, visits |-> 5945],
          [zip |-> "30302", dma |-> "ATLANTA", population |-> 28077, impressions |-> 118896, visits |-> 11226],
          [zip |-> "75270", dma |-> "DALLAS - FT. WORTH", population |-> 0, impressions |-> 111404, visits |-> 8716],
          [zip |-> "20163", dma |-> "WASHINGTON, DC", population |-> 4448, impressions |-> 102776, visits |-> 5749],
          [zip |-> "20068", dma |-> "WASHINGTON, DC", population |-> 2207, impressions |-> 99623, visits |-> 10260],
          [zip |-> "14580", dma |-> "ROCHESTER, NY", population |-> 52587, impressions |-> 97761, visits |-> 44652],
          [zip |-> "19099", dma |-> "PHILADELPHIA", population |-> 13603, impressions |-> 95964, visits |-> 4778],
          [zip |-> "90009", dma |-> "LOS ANGELES", population |-> 31739, impressions |-> 68605, visits |-> 5274],
          [zip |-> "64121", dma |-> "KANSAS CITY", population |-> 383, impressions |-> 60573, visits |-> 3413]>>,
     dmaZipCounts |->
        ("NEW YORK" :> 112)
            @@ ("CHICAGO" :> 98)
            @@ ("WASHINGTON, DC" :> 87)
            @@ ("PHOENIX" :> 65)
            @@ ("ATLANTA" :> 58)
            @@ ("DALLAS - FT. WORTH" :> 52)]

Advertiser27588 ==
    [summary |->
        [totalImpressions |-> 11800000, totalVisits |-> 633152,
         overallVisitRate |-> [n |-> 537, d |-> 10000], liftVsControl |-> [n |-> 285, d |-> 10]],
     campaigns |->
        <<>>,
     contexts |->
        <<[code |-> "mail.yahoo.com", impressions |-> 9275, visits |-> 36414, visitRate |-> [n |-> 393, d |-> 10000]],
          [code |-> "www.yahoo.com", impressions |-> 5630, visits |-> 32124, visitRate |-> [n |-> 571, d |-> 10000]],
          [code |-> "www.foxnews.com", impressions |-> 2100, visits |-> 8500, visitRate |-> [n |-> 405, d |-> 10000]],
          [code |-> "solitaired.com", impressions |-> 1850, visits |-> 7200, visitRate |-> [n |-> 389, d |-> 10000]],
          [code |-> "www.lotterypost.com", impressions |-> 1420, visits |-> 5800, visitRate |-> [n |-> 408, d |-> 10000]]>>,
     zipCodes |->
        <<[zip |-> "89101", dma |-> "LAS VEGAS", population |-> 42000, impressions |-> 850000, visits |-> 51000],
          [zip |-> "10001", dma |-> "NEW YORK", population |-> 82500, impressions |-> 1200000, visits |-> 60000],
          [zip |-> "19101", dma |-> "PHILADELPHIA", population |-> 54000, impressions |-> 780000, visits |-> 39000],
          [zip |-> "70112", dma |-> "NEW ORLEANS", population |-> 38000, impressions |-> 520000, visits |-> 28600]>>,
     dmaZipCounts |->
        ("LAS VEGAS" :> 45)
            @@ ("NEW YORK" :> 331)
            @@ ("PHILADELPHIA" :> 112)
            @@ ("NEW ORLEANS" :> 67)]

Advertiser7389 ==
    [summary |->
        [totalImpressions |-> 147142878, totalVisits |-> 5702339,
         overallVisitRate |-> [n |-> 3875, d |-> 100000], liftVsControl |-> [n |-> 456, d |-> 10]],
     campaigns |->
        <<>>,
     publishers |->
        <<>>,
     zipCodes |->
        <<[zip |-> "10123", dma |-> "NEW YORK", population |-> 0, impressions |-> 2831300, visits |-> 115624],
          [zip |-> "30302", dma |-> "ATLANTA", population |-> 28077, impressions |-> 1267043, visits |-> 97007],
          [zip |-> "33102", dma |-> "MIAMI - FT. LAUDERDALE", population |-> 0, impressions |-> 1229889, visits |-> 187226],
          [zip |-> "32811", dma |-> "ORLANDO - DAYTONA BCH", population |-> 41246, impressions |-> 1168239, visits |-> 534750],
          [zip |-> "32802", dma |-> "ORLANDO - DAYTONA BCH", population |-> 12174, impressions |-> 1145481, visits |-> 245380],
          [zip |-> "20149", dma |-> "WASHINGTON, DC", population |-> 48110, impressions |-> 1060622, visits |-> 36507],
          [zip |-> "60666", dma |-> "CHICAGO", population |-> 9926, impressions |-> 1047066, visits |-> 29447],
          [zip |-> "20068", dma |-> "WASHINGTON, DC", population |-> 2207, impressions |-> 885056, visits |-> 13407],
          [zip |-> "19099", dma |-> "PHILADELPHIA", population |-> 13603, impressions |-> 825804, visits |-> 16361],
          [zip |-> "33606", dma |-> "TAMPA - ST. PETE", population |-> 19466, impressions |-> 630796, visits |-> 78338],
          [zip |-> "34758", dma |-> "ORLANDO - DAYTONA BCH", population |-> 41094, impressions |-> 447993, visits |-> 195119],
          [zip |-> "32920", dma |-> "ORLANDO - DAYTONA BCH", population |-> 10181, impressions |-> 422592, visits |-> 178407]>>,
     dmaZipCounts |->
        ("ORLANDO - DAYTONA BCH" :> 145)
            @@ ("MIAMI - FT. LAUDERDALE" :> 89)
            @@ ("NEW YORK" :> 67)
            @@ ("TAMPA - ST. PETE" :> 54)
            @@ ("ATLANTA" :> 48),
     noPublisherData |-> TRUE]

Advertiser40514 ==
    [summary |->
        [totalImpressions |-> 1432999, totalVisits |-> 23896,
         overallVisitRate |-> [n |-> 1667, d |-> 100000], liftVsControl |-> [n |-> 234, d |-> 10]],
     campaigns |->
        <<>>,
     contexts |->
        <<[code |-> "g1080220", impressions |-> 321745, visits |-> 4790, visitRate |-> [n |-> 149, d |-> 10000]],
          [code |-> "g1080212", impressions |-> 100890, visits |-> 4421, visitRate |-> [n |-> 438, d |-> 10000]],
          [code |-> "g1094458", impressions |-> 86721, visits |-> 260, visitRate |-> [n |-> 30, d |-> 10000]],
          [code |-> "g1080222", impressions |-> 79873, visits |-> 859, visitRate |-> [n |-> 108, d |-> 10000]],
          [code |-> "g965628", impressions |-> 72559, visits |-> 1308, visitRate |-> [n |-> 180, d |-> 10000]],
          [code |-> "g1080218", impressions |-> 66201, visits |-> 173, visitRate |-> [n |-> 26, d |-> 10000]],
          [code |-> "g1080210", impressions |-> 59723, visits |-> 1111, visitRate |-> [n |-> 186, d |-> 10000]],
          [code |-> "g1080211", impressions |-> 31280, visits |-> 1474, visitRate |-> [n |-> 471, d |-> 10000]]>>,
     postalCodes |->
        <<[zip |-> "30334", impressions |-> 3981, visits |-> 159, visitRate |-> [n |-> 399, d |-> 10000]],
          [zip |-> "60602", impressions |-> 3742, visits |-> 233, visitRate |-> [n |-> 623, d |-> 10000]],
          [zip |-> "75202", impressions |-> 3217, visits |-> 184, visitRate |-> [n |-> 572, d |-> 10000]],
          [zip |-> "98101", impressions |-> 2395, visits |-> 165, visitRate |-> [n |-> 689, d |-> 10000]],
          [zip |-> "20147", impressions |-> 2050, visits |-> 89, visitRate |-> [n |-> 434, d |-> 10000]]>>,
     trafficSources |->
        <<[source |-> "Telly", impressions |-> 2229, visits |-> 89, visitRate |-> [n |-> 399, d |-> 10000]],
          [source |-> "Paramount+", impressions |-> 7960, visits |-> 311, visitRate |-> [n |-> 391, d |-> 10000]],
          [source |-> "Google/DV360", impressions |-> 46253, visits |-> 1713, visitRate |-> [n |-> 370, d |-> 10000]],
          [source |-> "Amazon", impressions |-> 16608, visits |-> 609, visitRate |-> [n |-> 367, d |-> 10000]],
          [source |-> "Pluto TV", impressions |-> 53121, visits |-> 1860, visitRate |-> [n |-> 350, d |-> 10000]]>>]

UiStore ==
    ("45143" :> Advertiser45143)
        @@ ("27828" :> Advertiser27828)
        @@ ("37704" :> Advertiser37704)
        @@ ("45346" :> Advertiser45346)
        @@ ("32623" :> Advertiser32623)
        @@ ("40143" :> Advertiser40143)
        @@ ("39323" :> Advertiser39323)
        @@ ("45141" :> Advertiser45141)
        @@ ("8123" :> Advertiser8123)
        @@ ("27588" :> Advertiser27588)
        @@ ("7389" :> Advertiser7389)
        @@ ("40514" :> Advertiser40514)

\* The optimizer after it is mounted: nothing expanded, nothing selected.
UiInit ==
    /\ pc = "ui"
    /\ advertiserData = UiStore
    /\ selectedAgency = ""
    /\ selectedAdvertiser = ""
    /\ expandedAgency = ""
    /\ advertisers = <<>>
    /\ loading = FALSE
    /\ data = Null
    /\ timers = <<>>
    /\ pendingUpdates = <<>>
    /\ DedupeIdle
    /\ ResolveIdle
    /\ ScoreIdle
    /\ LiftIdle

\* handleAgencyClick without setSelectedAdvertiser('') and setData(null).
handleAgencyClickKeepsSelection(agencyId) ==
    /\ pc = "ui"
    /\ IF expandedAgency = agencyId
       THEN /\ expandedAgency' = ""
            /\ UNCHANGED <<selectedAgency, selectedAdvertiser, data, advertisers,
                           pendingUpdates>>
       ELSE /\ expandedAgency' = agencyId
            /\ selectedAgency' = agencyId
            /\ advertisers' = IF agencyId \in DOMAIN realAdvertisers
                              THEN realAdvertisers[agencyId] ELSE <<>>
            /\ UNCHANGED <<selectedAdvertiser, data, pendingUpdates>>
    /\ UNCHANGED <<pc, advertiserData, loading, timers,
                   dedupeVars, resolveVars, scoreVars, liftVars>>

\* handleAgencyClick: a click on the expanded agency collapses it; a click
\* on another one expands and selects it, clears the advertiser and the
\* result, and lists its advertisers (realAdvertisers[agencyId] || []).
handleAgencyClick(agencyId) ==
    /\ pc = "ui"
    /\ IF expandedAgency = agencyId
       THEN /\ expandedAgency' = ""
            /\ UNCHANGED <<selectedAgency, selectedAdvertiser, data, advertisers,
                           pendingUpdates>>
       ELSE /\ expandedAgency' = agencyId
            /\ selectedAgency' = agencyId
            /\ selectedAdvertiser' = ""
            /\ data' = Null
            /\ pendingUpdates' = Rebased(pendingUpdates, SetData(Null))
            /\ advertisers' = IF agencyId \in DOMAIN realAdvertisers
                              THEN realAdvertisers[agencyId] ELSE <<>>
    /\ UNCHANGED <<pc, advertiserData, loading, timers,
                   dedupeVars, resolveVars, scoreVars, liftVars>>

\* The click on an advertiser row, rendered under the expanded agency from
\* advertisers: setSelectedAdvertiser(advId); setData(null).
advertiserClick(advId) ==
    /\ pc = "ui"
    /\ expandedAgency # ""
    /\ advId \in Listed(advertisers)
    /\ selectedAdvertiser' = advId
    /\ data' = Null
    /\ pendingUpdates' = Rebased(pendingUpdates, SetData(Null))
    /\ UNCHANGED <<pc, advertiserData, selectedAgency, expandedAgency, advertisers, loading,
                   timers, dedupeVars, resolveVars, scoreVars, liftVars>>

\* What the user can do: click one of the agency rows, which are those of
\* realAgencies (setAgencies(realAgencies) when the optimizer is mounted; the
\* search box only hides rows); click one of the advertiser rows under the
\* expanded agency; press Analyze; the timer of a request fires; and the
\* updates its callback has queued are rendered.
UiNext ==
    \/ \E agencyId \in Listed(realAgencies) : handleAgencyClick(agencyId)
    \/ \E advId \in Listed(advertisers) : advertiserClick(advId)
    \/ analyzeData
    \/ TimeoutCallback
    \/ Render

SpecUi == UiInit /\ [][UiNext]_vars

\* A pending timer of setTimeout(..., 600) fires: the oldest timer leaves the
\* pending ones.  In SpecUi the steps that do this are those of
\* TimeoutCallback, since analyzeData adds a timer and the clicks leave the
\* timers alone.
TimerFires ==
    /\ timers # <<>>
    /\ timers' = Tail(timers)

\* The queued updates are rendered: the queue is emptied.  In SpecUi the
\* steps that do this are those of Render.
UpdatesRendered ==
    /\ pendingUpdates # <<>>
    /\ pendingUpdates' = <<>>

\* The timer fires once its delay is over, and queued updates are rendered,
\* whatever the user does in between.
SpecUiFair == SpecUi /\ WF_timers(TimerFires) /\ WF_pendingUpdates(UpdatesRendered)

(* lift analysis *)

\* Twenty exposed households, one of them a visitor household, against a
\* control cohort of twenty-five households with one visitor: 0.05 and 0.04.
ScenarioInput ==
    [impressions |-> [i \in 1..20 |-> [device_id |-> RealId(i), ip |-> i]],
     lookup |-> [i \in 1..20 |-> i],
     visitors |-> <<[maid |-> SyntheticId(1), household_id |-> 1]>>,
     control |-> [households |-> 25, visitors |-> 1]]

LiftInit ==
    /\ pc = "join_in"
    /\ \/ \E imps \in SeqsUpTo(ImpressionRows, MaxExposed), lookup \in Lookups,
             visitors \in SeqsUpTo(VisitorRows, MaxVisitors), control \in ControlCohorts :
               liftIn = [impressions |-> imps, lookup |-> lookup,
                         visitors |-> visitors, control |-> control]
       \/ liftIn = ScenarioInput
    /\ joinOut = [household_view |-> <<>>, unmatched_count |-> 0,
                  device_view |-> <<>>, exposed |-> NoCohort]
    /\ liftOut = [ok |-> FALSE, reason |-> "none"]
    /\ DedupeIdle
    /\ ResolveIdle
    /\ ScoreIdle
    /\ UiIdle

Join ==
    /\ pc = "join_in"
    /\ joinOut' = householdJoin(liftIn.impressions, liftIn.lookup, liftIn.visitors)
    /\ pc' = "lift_in"
    /\ UNCHANGED <<liftIn, liftOut, dedupeVars, resolveVars, scoreVars, uiVars>>

Lift ==
    /\ pc = "lift_in"
    /\ liftOut' = lift(joinOut.exposed, liftIn.control)
    /\ pc' = "lift_out"
    /\ UNCHANGED <<liftIn, joinOut, dedupeVars, resolveVars, scoreVars, uiVars>>

LiftNext == Join \/ Lift

SpecLift == LiftInit /\ [][LiftNext]_vars

-----------------------------------------------------------------------------
(* Claims: last-touch attribution (SpecDedupe) *)

CreditedFor(fl, cr, i) ==
    {n \in DOMAIN cr : EpisodeKey(cr[n]) = EpisodeKey(fl[i])}

\* C1: after dedupe every episode key of the input has exactly one credited
\* row, every credited row is an input row (so no key that is absent from the
\* input is credited), and an empty input gives an empty output.
C1_OnePerEpisode ==
    pc = "dedupe_out" =>
        /\ \A i \in DOMAIN flags : Cardinality(CreditedFor(flags, credited, i)) = 1
        /\ \A n \in DOMAIN credited : credited[n] \in SeqToSet(flags)
        /\ (flags = <<>> => credited = <<>>)

\* C1 witness: three flags over two episodes, one of them flagged twice,
\* collapse to two credited rows.
C1_Witness ==
    /\ pc = "dedupe_out"
    /\ Len(flags) = 3
    /\ Len(credited) = 2
    /\ \E i, j \in DOMAIN flags : i # j /\ EpisodeKey(flags[i]) = EpisodeKey(flags[j])

\* C2 (as claimed): the row kept for an episode has the maximum timestamp of
\* its group and, among the rows that share that maximum, the
\* lexicographically smallest source-row identifier.
C2_MaxTimestampSmallestId ==
    pc = "dedupe_out" =>
        \A n \in DOMAIN credited : \A i \in DOMAIN flags :
            EpisodeKey(flags[i]) = EpisodeKey(credited[n]) =>
                \/ flags[i].ts < credited[n].ts
                \/ /\ flags[i].ts = credited[n].ts
                   /\ ~LexLess(flags[i].id, credited[n].id)

\* The part of C2 that the query does guarantee: the kept row has the
\* maximum timestamp of its episode.
C2_MaxTimestamp ==
    pc = "dedupe_out" =>
        \A n \in DOMAIN credited : \A i \in DOMAIN flags :
            EpisodeKey(flags[i]) = EpisodeKey(credited[n]) => flags[i].ts <= credited[n].ts

\* C22 (as claimed): the query run on its own result returns that result,
\* the same list of rows.  The query has no outer ORDER BY, so the second
\* run may return the rows in another order.
C22_Idempotent ==
    pc = "dedupe_again" => recredited = credited

\* The rows alone are the same: the second run keeps every row of the
\* first, each of them once.
C22_SameRows ==
    pc = "dedupe_again" =>
        /\ SeqToSet(recredited) = SeqToSet(credited)
        /\ Len(recredited) = Len(credited)

\* The first run dropped a row, the second run kept the two rows that were
\* left.
C22_Reran ==
    /\ pc = "dedupe_again"
    /\ Len(flags) = 3
    /\ Len(credited) = 2
    /\ Len(recredited) = 2
    /\ SeqToSet(recredited) = SeqToSet(credited)

\* C23: whatever the order of the input rows, the query has one result, rows
\* and row order alike.  The ORDER BY leaves ties between equal timestamps
\* open and the query has no outer ORDER BY.
C23_OrderIndependent ==
    pc = "dedupe_out" =>
        \A p \in Perms(DOMAIN flags) :
            \A out \in DedupeOutcomes([i \in DOMAIN flags |-> flags[p[i]]]) :
                out = credited

\* The rows alone, without their order, depend on the input order as well:
\* this fails too.
C23_SameRows ==
    pc = "dedupe_out" =>
        \A p \in Perms(DOMAIN flags) :
            \A out \in DedupeOutcomes([i \in DOMAIN flags |-> flags[p[i]]]) :
                SeqToSet(out) = SeqToSet(credited)

-----------------------------------------------------------------------------
(* Claims: the configuration hierarchy (SpecResolve) *)

Sets(table, id, f) == id \in DOMAIN table /\ f \in DOMAIN table[id]

\* C3: resolve is total: every structurally valid triple, known to the
\* tables or not, gets a successful answer whose configuration sets every
\* field to a legal value.
C3_ResolveTotal ==
    (pc = "resolve_out" /\ StructurallyValid(cfgReq.pt, cfgReq.agency_id, cfgReq.advertiser_id)) =>
        /\ cfgOut.ok
        /\ DOMAIN cfgOut.config = Fields
        /\ \A f \in Fields : cfgOut.config[f] \in FieldValues(f)

\* C3 witness: a triple none of whose ids is in any table is resolved.
C3_Witness ==
    /\ pc = "resolve_out"
    /\ cfgReq.pt >= 0 /\ cfgReq.pt \notin DOMAIN ptConfig
    /\ cfgReq.agency_id >= 0 /\ cfgReq.agency_id \notin DOMAIN agencyConfig
    /\ cfgReq.advertiser_id >= 0 /\ cfgReq.advertiser_id \notin DOMAIN advertiserConfig
    /\ cfgOut.ok

\* C4: each field of the answer comes from the most specific level that sets
\* it (advertiser, agency, platform, global default); and where the platform
\* sets a field and the asked advertiser overrides it, any other advertiser
\* without an override, under the same platform and an agency that does not
\* override the field, gets the platform's value.
C4_Precedence ==
    (pc = "resolve_out" /\ cfgOut.ok) =>
        LET pt == cfgReq.pt
            ag == cfgReq.agency_id
            adv == cfgReq.advertiser_id
        IN  \A f \in Fields :
              /\ cfgOut.config[f] =
                    IF Sets(advertiserConfig, adv, f) THEN advertiserConfig[adv][f]
                    ELSE IF Sets(agencyConfig, ag, f) THEN agencyConfig[ag][f]
                    ELSE IF Sets(ptConfig, pt, f) THEN ptConfig[pt][f]
                    ELSE GlobalDefault[f]
              /\ (Sets(ptConfig, pt, f) /\ Sets(advertiserConfig, adv, f)
                    /\ ~Sets(agencyConfig, ag, f)) =>
                    \A other \in AdvertiserArgs :
                        (other >= 0 /\ ~Sets(advertiserConfig, other, f)) =>
                            Resolve(ptConfig, agencyConfig, advertiserConfig,
                                    pt, ag, other).config[f] = ptConfig[pt][f]

\* C4 witness: the platform says PUBLISHER_CODE, the agency says
\* PUBLISHER_CODE too, the advertiser says SITE, and SITE is resolved.
C4_Witness ==
    /\ pc = "resolve_out"
    /\ cfgOut.ok
    /\ Sets(ptConfig, cfgReq.pt, "publisher_column")
    /\ ptConfig[cfgReq.pt]["publisher_column"] = "PUBLISHER_CODE"
    /\ Sets(agencyConfig, cfgReq.agency_id, "publisher_column")
    /\ agencyConfig[cfgReq.agency_id]["publisher_column"] = "PUBLISHER_CODE"
    /\ Sets(advertiserConfig, cfgReq.advertiser_id, "publisher_column")
    /\ advertiserConfig[cfgReq.advertiser_id]["publisher_column"] = "SITE"
    /\ cfgOut.config["publisher_column"] = "SITE"

\* The value a field has below the advertiser level: the agency's when the
\* agency sets it, else the platform's, else the global default.
BelowAdvertiser(f) ==
    IF Sets(agencyConfig, cfgReq.agency_id, f) THEN agencyConfig[cfgReq.agency_id][f]
    ELSE IF Sets(ptConfig, cfgReq.pt, f) THEN ptConfig[cfgReq.pt][f]
    ELSE GlobalDefault[f]

\* The value a field has below the agency level.
BelowAgency(f) ==
    IF Sets(ptConfig, cfgReq.pt, f) THEN ptConfig[cfgReq.pt][f] ELSE GlobalDefault[f]

\* An override that sets some fields and not all of them.
Partial(table, id) ==
    /\ id \in DOMAIN table
    /\ DOMAIN table[id] # {}
    /\ DOMAIN table[id] # Fields

\* C20: under a partial advertiser or agency override the answer still has
\* every field; a field the override sets has the override's value (unless a
\* more specific level sets it too), and a field it does not set has the
\* value of the next less specific level that sets it.
C20_FieldByFieldMerge ==
    (pc = "resolve_out" /\ cfgOut.ok) =>
        LET ag == cfgReq.agency_id
            adv == cfgReq.advertiser_id
        IN  /\ Partial(advertiserConfig, adv) =>
                \A f \in Fields :
                    /\ f \in DOMAIN cfgOut.config
                    /\ cfgOut.config[f] =
                          IF f \in DOMAIN advertiserConfig[adv]
                          THEN advertiserConfig[adv][f] ELSE BelowAdvertiser(f)
            /\ Partial(agencyConfig, ag) =>
                \A f \in Fields \ DOMAIN Lookup(advertiserConfig, adv) :
                    /\ f \in DOMAIN cfgOut.config
                    /\ cfgOut.config[f] =
                          IF f \in DOMAIN agencyConfig[ag]
                          THEN agencyConfig[ag][f] ELSE BelowAgency(f)

\* C20 witness: the advertiser overrides the publisher column alone, the
\* agency the decode policy alone, the platform sets both to other values, and
\* the answer takes one field from each override.
C20_Witness ==
    /\ pc = "resolve_out"
    /\ cfgOut.ok
    /\ Partial(advertiserConfig, cfgReq.advertiser_id)
    /\ Partial(agencyConfig, cfgReq.agency_id)
    /\ DOMAIN advertiserConfig[cfgReq.advertiser_id] = {"publisher_column"}
    /\ DOMAIN agencyConfig[cfgReq.agency_id] = {"decode_policy"}
    /\ Sets(ptConfig, cfgReq.pt, "publisher_column")
    /\ Sets(ptConfig, cfgReq.pt, "decode_policy")
    /\ ptConfig[cfgReq.pt]["publisher_column"]
          # advertiserConfig[cfgReq.advertiser_id]["publisher_column"]
    /\ ptConfig[cfgReq.pt]["decode_policy"] # agencyConfig[cfgReq.agency_id]["decode_policy"]
    /\ cfgOut.config["publisher_column"]
          = advertiserConfig[cfgReq.advertiser_id]["publisher_column"]
    /\ cfgOut.config["decode_policy"] = agencyConfig[cfgReq.agency_id]["decode_policy"]

\* C21: resolve fails exactly for a structurally invalid triple; for a valid
\* triple whose platform type has no entry, the answer is flagged low
\* confidence, and it is the global default when no override applies.
C21_UnknownPlatformDefault ==
    pc = "resolve_out" =>
        LET pt == cfgReq.pt
            ag == cfgReq.agency_id
            adv == cfgReq.advertiser_id
        IN  /\ cfgOut.ok <=> StructurallyValid(pt, ag, adv)
            /\ (StructurallyValid(pt, ag, adv) /\ pt \notin DOMAIN ptConfig) =>
                  /\ cfgOut.low_confidence
                  /\ (\A f \in Fields : ~Sets(agencyConfig, ag, f)
                                         /\ ~Sets(advertiserConfig, adv, f)) =>
                        cfgOut.config = GlobalDefault

\* C21 witness: platform type 99 has no entry while the tables hold entries
\* for other ids; the answer is the flagged global default.
C21_Witness ==
    /\ pc = "resolve_out"
    /\ cfgReq.pt = 99
    /\ DOMAIN ptConfig # {}
    /\ cfgReq.agency_id >= 0 /\ cfgReq.agency_id \notin DOMAIN agencyConfig
    /\ DOMAIN agencyConfig # {}
    /\ cfgReq.advertiser_id >= 0 /\ cfgReq.advertiser_id \notin DOMAIN advertiserConfig
    /\ cfgOut.ok
    /\ cfgOut.low_confidence
    /\ cfgOut.config = GlobalDefault

\* C21 covers the failure too: a negative id is refused.
C21_InvalidRefused ==
    /\ pc = "resolve_out"
    /\ cfgReq.pt >= 0 /\ cfgReq.agency_id >= 0 /\ cfgReq.advertiser_id < 0
    /\ ~cfgOut.ok

-----------------------------------------------------------------------------
(* Claims: calcPriority (SpecScore) *)

\* 1000 * impressions / total - 100 * visitRate / baseline as a fraction,
\* the performance term taken as 0 when baseline is 0; the share and the
\* performance ratio are brought to lowest terms first.
ExactPriority(item, baseline, total) ==
    LET share == Lowest([n |-> item.impressions, d |-> total])
        perf == IF baseline.n = 0 THEN [n |-> 0, d |-> 1]
                ELSE Lowest([n |-> item.visitRate.n * baseline.d,
                             d |-> item.visitRate.d * baseline.n])
    IN  [n |-> 1000 * share.n * perf.d - 100 * perf.n * share.d,
         d |-> share.d * perf.d]

ExactNum(item, baseline, total) == ExactPriority(item, baseline, total).n

ExactDen(item, baseline, total) == ExactPriority(item, baseline, total).d

\* p is an integer nearest to num / den: the nearest one, or either
\* neighbour of a quotient halfway between two integers.
Nearest(p, num, den) == 2 * Abs(p * den - num) <= den

\* C5: the priority is the integer nearest to
\* 1000*impressions/total - 100*visit_rate/baseline (performance term 0 when
\* the baseline is 0); 1,000,000 of 2,000,000 impressions at rate 0.001
\* against a baseline of 0.004 gives 475.
C5_PriorityFormula ==
    pc = "score_out" =>
        /\ Nearest(scoreOut.a, ExactNum(scoreIn.a, scoreIn.baseline, scoreIn.totalImpressions),
                   ExactDen(scoreIn.a, scoreIn.baseline, scoreIn.totalImpressions))
        /\ Nearest(scoreOut.b, ExactNum(scoreIn.b, scoreIn.baseline, scoreIn.totalImpressions),
                   ExactDen(scoreIn.b, scoreIn.baseline, scoreIn.totalImpressions))
        /\ scoreIn = ScoreScenario => scoreOut.a = 475

\* C5 witness: the scenario of the specification has been scored.
C5_Witness ==
    /\ pc = "score_out"
    /\ scoreIn.a = [impressions |-> 1000000, visitRate |-> Rate(1)]
    /\ scoreIn.baseline = Rate(4)
    /\ scoreIn.totalImpressions = 2000000
    /\ scoreOut.a = 475

\* C5 covers the quotients halfway between two integers as well: the
\* doubles of the code take -42.5 (no impressions, the rate 0.017 against
\* 0.04) for a little less and round it to -43.  Here: no impressions, the
\* rate 0.001 against 0.008, -12.5.
C5_HalfwayReached ==
    /\ pc = "score_out"
    /\ scoreIn.a = [impressions |-> 0, visitRate |-> Rate(1)]
    /\ scoreIn.baseline = Rate(8)
    /\ scoreOut.a \in {-13, -12}

\* C5 also covers the zero baseline: this state is reached as well.
C5_ZeroBaselineReached ==
    /\ pc = "score_out"
    /\ scoreIn.baseline = Rate(0)
    /\ scoreIn.a.visitRate.n > 0
    /\ scoreOut.a = (1000 * scoreIn.a.impressions) \div scoreIn.totalImpressions
    /\ scoreOut.a > 0

\* C6: with baseline and total fixed, the priority does not decrease when
\* the impressions (the share) grow at equal visit rate, and does not
\* increase when the visit rate grows at equal impressions.
C6_Monotone ==
    pc = "score_out" =>
        /\ (scoreIn.a.visitRate = scoreIn.b.visitRate
              /\ scoreIn.a.impressions <= scoreIn.b.impressions) => scoreOut.a <= scoreOut.b
        /\ (scoreIn.a.impressions = scoreIn.b.impressions
              /\ scoreIn.a.visitRate.n <= scoreIn.b.visitRate.n) => scoreOut.a >= scoreOut.b

\* C6 witness: the same impressions at a higher visit rate scored strictly
\* lower, against a positive baseline.
C6_Witness ==
    /\ pc = "score_out"
    /\ scoreIn.baseline.n > 0
    /\ scoreIn.a.impressions = scoreIn.b.impressions
    /\ scoreIn.a.visitRate.n < scoreIn.b.visitRate.n
    /\ scoreOut.a > scoreOut.b

-----------------------------------------------------------------------------
(* Claims: the recommendations of analyzeData (SpecUi)                     *)
(*                                                                         *)
(* advertiserData is a constant of the optimizer, so the results these     *)
(* claims are about are those of its twelve records; data holds one of     *)
(* them once the updates of a timer callback have been rendered.           *)

Analyzed == data # Null

\* The record of the data store that the result shown was computed from
\* (data.summary is advData.summary, and no two records share a summary).
AnalyzedRecord ==
    advertiserData[CHOOSE id \in DOMAIN advertiserData :
                       advertiserData[id].summary = data.summary]

\* The scored publisher (or context) rows of the result.
ScoredPubs == IF data.type = "web_visits" THEN data.contexts ELSE data.publishers

\* The recommendation tiers of the result.
PubTiers ==
    IF data.pubRecommendations = Null THEN {}
    ELSE {data.pubRecommendations.conservative, data.pubRecommendations.aggressive}

GeoTiers == {data.geoRecommendations.conservative, data.geoRecommendations.aggressive}

\* The rows of a recommendation stay within the maximum excludable
\* fraction: their impressions are at most MaxExcludePct hundredths of the
\* total, which is floor(MaxExcludePct * totalImps / 100) for whole numbers.
WithinMaxExcluded(items, totalImps) ==
    Sum(items, "impressions")
        <= MaxExcludePct * (totalImps \div 100)
               + (MaxExcludePct * (totalImps % 100)) \div 100

\* C7 (as claimed): in every tier of every result the impressions of the
\* selected rows sum to at most 35% of the total impressions.  For
\* advertiser 45143 the conservative publisher tier selects 7,043,981 of
\* 7,624,633 impressions.
C7_MaxExcludedFraction ==
    Analyzed =>
        \A r \in PubTiers \cup GeoTiers :
            WithinMaxExcluded(r.items, data.summary.totalImpressions)

\* The count the optimizer takes for a market area, dmaZipCounts[dma] || 999,
\* less the rows of items in that market area.
Remaining(dmaZipCounts, items, dma) ==
    DmaCount(dmaZipCounts, dma).value
        - Cardinality({k \in DOMAIN items : items[k].dma = dma})

\* C8, for the market areas the optimizer has a count of or takes 999 for:
\* in every geography tier, every market area that a selected ZIP belongs
\* to keeps at least 5 of its ZIPs once the selected ZIPs are removed.
C8_MinZipsPerDma ==
    Analyzed =>
        LET dmaZipCounts == OrElse(AnalyzedRecord, "dmaZipCounts", <<>>)
        IN  \A r \in GeoTiers : \A k \in DOMAIN r.items :
                Remaining(dmaZipCounts, r.items, r.items[k].dma) >= MinDmaZips

\* The per-DMA filter of analyzeData holds a ZIP back.  No result of the
\* optimizer has such a ZIP.
C8_ZipHeldBack ==
    /\ Analyzed
    /\ \E k \in DOMAIN data.zipCodes :
          ~DmaGuard(data.zipCodes[k], OrElse(AnalyzedRecord, "dmaZipCounts", <<>>))

\* The longest prefix of at most top rows of qualifying that stays within
\* the maximum excludable fraction.
LargestGuardedPrefix(qualifying, top, totalImps) ==
    LET ok == {k \in 0..Min(top, Len(qualifying)) :
                  WithinMaxExcluded(SubSeq(qualifying, 1, k), totalImps)}
    IN  SubSeq(qualifying, 1, CHOOSE k \in ok : \A m \in ok : m <= k)

\* items is sorted by priority, highest first, and no row of rows that
\* passes and is not in items has a higher priority than a row of items.
PrefixByPriority(items, rows, pass) ==
    /\ \A i, j \in DOMAIN items :
          i < j => items[i].reallocationPriority >= items[j].reallocationPriority
    /\ \A q \in pass \ SeqToSet(items) : \A k \in DOMAIN items :
          q.reallocationPriority <= items[k].reallocationPriority

ConsPass(rows) == {p \in SeqToSet(rows) : p.reallocationPriority > 0 /\ p.visits > 0}
AggPubPass(rows) == {p \in SeqToSet(rows) : p.reallocationPriority > -20}
AggZipPass(rows) == {p \in SeqToSet(rows) : p.reallocationPriority > -50}
DmaPass(rows) ==
    {z \in SeqToSet(rows) :
        DmaGuard(z, OrElse(AnalyzedRecord, "dmaZipCounts", <<>>))}

\* What the claim C9 asks of one tier: the selection is a prefix by priority
\* of the rows that pass, and it is the largest prefix (of at most top rows)
\* within the maximum excludable fraction.
GuardedPrefix(items, rows, pass, top) ==
    /\ PrefixByPriority(items, rows, pass)
    /\ items = LargestGuardedPrefix(Filter(SortByPriority(rows), pass), top,
                                    data.summary.totalImpressions)

\* C9 (as claimed): every tier's selection is a prefix, by non-increasing
\* priority, of its qualifying rows, and it is the largest prefix that
\* satisfies the guardrails.  (For a geography tier a ZIP held back by the
\* per-DMA minimum is not counted among the qualifying rows.)  For
\* advertiser 45143 the conservative publisher tier holds five rows, and
\* only the first of them stays within 35% of the impressions.
C9_LargestGuardedPrefix ==
    Analyzed =>
        /\ data.pubRecommendations # Null =>
              /\ GuardedPrefix(data.pubRecommendations.conservative.items, ScoredPubs,
                               ConsPass(ScoredPubs), 5)
              /\ GuardedPrefix(data.pubRecommendations.aggressive.items, ScoredPubs,
                               AggPubPass(ScoredPubs), 8)
        /\ GuardedPrefix(data.geoRecommendations.conservative.items, data.zipCodes,
                         ConsPass(data.zipCodes) \cap DmaPass(data.zipCodes), 5)
        /\ GuardedPrefix(data.geoRecommendations.aggressive.items, data.zipCodes,
                         AggZipPass(data.zipCodes) \cap DmaPass(data.zipCodes), 10)

\* The part of C9 that the code does guarantee: every tier's selection is a
\* prefix by priority of the rows that pass its filter.
C9_PrefixByPriority ==
    Analyzed =>
        /\ data.pubRecommendations # Null =>
              /\ PrefixByPriority(data.pubRecommendations.conservative.items, ScoredPubs,
                                  ConsPass(ScoredPubs))
              /\ PrefixByPriority(data.pubRecommendations.aggressive.items, ScoredPubs,
                                  AggPubPass(ScoredPubs))
        /\ PrefixByPriority(data.geoRecommendations.conservative.items, data.zipCodes,
                            ConsPass(data.zipCodes) \cap DmaPass(data.zipCodes))
        /\ PrefixByPriority(data.geoRecommendations.aggressive.items, data.zipCodes,
                            AggZipPass(data.zipCodes) \cap DmaPass(data.zipCodes))

\* C10: a conservative tier holds at most 5 rows, each of priority > 0 and
\* visits > 0; an aggressive tier holds rows of priority > -20 and at most 8
\* of them for publishers or contexts, rows of priority > -50 and at most 10
\* of them for geography.
C10_TierMembership ==
    Analyzed =>
        /\ data.pubRecommendations # Null =>
              /\ SeqToSet(data.pubRecommendations.conservative.items) \subseteq ConsPass(ScoredPubs)
              /\ Len(data.pubRecommendations.conservative.items) <= 5
              /\ SeqToSet(data.pubRecommendations.aggressive.items) \subseteq AggPubPass(ScoredPubs)
              /\ Len(data.pubRecommendations.aggressive.items) <= 8
        /\ SeqToSet(data.geoRecommendations.conservative.items) \subseteq ConsPass(data.zipCodes)
        /\ Len(data.geoRecommendations.conservative.items) <= 5
        /\ SeqToSet(data.geoRecommendations.aggressive.items) \subseteq AggZipPass(data.zipCodes)
        /\ Len(data.geoRecommendations.aggressive.items) <= 10
        /\ \A r \in PubTiers \cup GeoTiers : r.count = Len(r.items)

\* C10 witness: more rows pass than a tier may hold, in all four tiers, and
\* the tiers hold 5, 8, 5 and 10 rows (the result of advertiser 45143: 12,
\* 13, 6 and 11 rows pass).
C10_Witness ==
    /\ Analyzed
    /\ data.pubRecommendations # Null
    /\ Cardinality(ConsPass(ScoredPubs)) > 5
    /\ Len(data.pubRecommendations.conservative.items) = 5
    /\ Cardinality(AggPubPass(ScoredPubs)) > 8
    /\ Len(data.pubRecommendations.aggressive.items) = 8
    /\ Cardinality(ConsPass(data.zipCodes) \cap DmaPass(data.zipCodes)) > 5
    /\ Len(data.geoRecommendations.conservative.items) = 5
    /\ Cardinality(AggZipPass(data.zipCodes) \cap DmaPass(data.zipCodes)) > 10
    /\ Len(data.geoRecommendations.aggressive.items) = 10

-----------------------------------------------------------------------------
(* Claims: the projection and the scores of analyzeData (SpecUi) *)

\* p and q are the same number; a zero denominator only matches a zero
\* denominator.
SameNumber(p, q) ==
    IF p.d = 0 \/ q.d = 0 THEN p.d = 0 /\ q.d = 0 ELSE Lowest(p) = Lowest(q)

\* What C11 asks of one recommendation r of a result with the given
\* summary.  The improvement is held as the new rate and the baseline that
\* ((newRate / baseline) - 1) * 100 is computed of.
ProjectionOf(r, summary) ==
    LET excImps == Sum(r.items, "impressions")
        excVisits == Sum(r.items, "visits")
        new_rate == [n |-> summary.totalVisits - excVisits,
                     d |-> summary.totalImpressions - excImps]
    IN  /\ r.excImps = excImps
        /\ SameNumber(r.newRate, new_rate)
        \* 100 * (new_rate / baseline_rate - 1)
        /\ SameNumber(r.improvement.newRate, new_rate)
        /\ r.improvement.baseline = summary.overallVisitRate

\* C11: in every recommendation the excluded impressions and visits are the
\* sums over the selected rows, new_rate is (total_visits - excluded_visits)
\* / (total_impressions - excluded_impressions) and improvement_pct is
\* 100 * (new_rate / baseline_rate - 1).
C11_Projection ==
    Analyzed => \A r \in PubTiers \cup GeoTiers : ProjectionOf(r, data.summary)

\* C11 witness: a recommendation that excludes rows with visits, leaves
\* impressions, and projects a change against a positive baseline.
C11_Witness ==
    /\ Analyzed
    /\ \E r \in PubTiers \cup GeoTiers :
          /\ Len(r.items) > 1
          /\ Sum(r.items, "visits") > 0
          /\ r.newRate.d > 0
          /\ r.improvement.baseline.n > 0
          /\ ~SameNumber(r.improvement.newRate, r.improvement.baseline)

\* The integers nearest to num / den, for natural numbers of any size with
\* den above 0: both neighbours of a quotient halfway between two integers,
\* which the doubles of the code may take for a little less.
NearestIntegers(num, den) ==
    LET qr == BigDivMod(num, den)
        half == BigCmp(BigMulSmall(qr[2], 2), den)
    IN  IF half < 0 THEN {BigToInt(qr[1])}
        ELSE IF half = 0 THEN {BigToInt(qr[1]), BigToInt(qr[1]) + 1}
        ELSE {BigToInt(qr[1]) + 1}

\* The integers nearest to (plus - minus) / den.
NearestToDifference(plus, minus, den) ==
    IF BigCmp(plus, minus) >= 0 THEN NearestIntegers(BigSub(plus, minus), den)
    ELSE {0 - p : p \in NearestIntegers(BigSub(minus, plus), den)}

\* round(100 * impression_share / population_share) of the scored ZIP row z
\* among rows: 0 when the population share is 0.
PopWeightedIndexesOf(z, rows, totalImps) ==
    IF z.population = 0 \/ Sum(rows, "population") = 0 THEN {0}
    ELSE NearestIntegers(
             BigMul(BigMulSmall(BigOf(z.impressions), 100),
                    BigOf(Sum(rows, "population"))),
             BigMul(BigOf(totalImps), BigOf(z.population)))

\* round(100 * visit_rate / baseline_rate) of a row with the given visit
\* rate: 0 when the baseline is 0.
PerformanceIndexesOf(visitRate, baseline) ==
    IF baseline.n = 0 THEN {0}
    ELSE NearestIntegers(
             BigMul(BigMulSmall(BigOf(visitRate.n), 100), BigOf(baseline.d)),
             BigMul(BigOf(visitRate.d), BigOf(baseline.n)))

\* round(1000 * impression_share - 100 * visit_rate / baseline_rate) of a
\* row with the given impressions and visit rate, against a baseline above 0.
GenericPrioritiesOf(impressions, visitRate, baseline, totalImps) ==
    NearestToDifference(
        BigMul(BigMul(BigMulSmall(BigOf(impressions), 1000), BigOf(visitRate.d)),
               BigOf(baseline.n)),
        BigMul(BigMul(BigMulSmall(BigOf(visitRate.n), 100), BigOf(baseline.d)),
               BigOf(totalImps)),
        BigMul(BigMul(BigOf(totalImps), BigOf(visitRate.d)), BigOf(baseline.n)))

\* What C12 asks of the scored ZIP row z among rows.
GeoPriorityOf(z, rows, baseline, totalImps) ==
    /\ z.impressions > 0 => SameNumber(z.visitRate, [n |-> z.visits, d |-> z.impressions])
    /\ \E pwi \in PopWeightedIndexesOf(z, rows, totalImps) :
          IF pwi > 0
          THEN \E idx \in PerformanceIndexesOf(z.visitRate, baseline) :
                   z.reallocationPriority = pwi - idx
          ELSE z.reallocationPriority
                   \in GenericPrioritiesOf(z.impressions, z.visitRate, baseline, totalImps)

\* C12: every ZIP row of a result has the priority pop_weighted_index -
\* performance_index when its pop_weighted_index (round(100 * impression
\* share / population share), 0 without a population share) is positive,
\* and the generic priority otherwise.
C12_GeoPriority ==
    Analyzed =>
        \A k \in DOMAIN data.zipCodes :
            GeoPriorityOf(data.zipCodes[k], data.zipCodes,
                          data.summary.overallVisitRate,
                          data.summary.totalImpressions)

\* C12 witness: a result with a ZIP scored by its population-weighted index
\* (and a performance index above 0) and a ZIP without population, scored
\* by the generic formula.
C12_Witness ==
    /\ Analyzed
    /\ data.summary.overallVisitRate.n > 0
    /\ \E i, j \in DOMAIN data.zipCodes :
          /\ \A p \in PopWeightedIndexesOf(data.zipCodes[i], data.zipCodes,
                                           data.summary.totalImpressions) : p > 0
          /\ \A x \in PerformanceIndexesOf(data.zipCodes[i].visitRate,
                                           data.summary.overallVisitRate) : x > 0
          /\ data.zipCodes[j].population = 0
          /\ data.zipCodes[j].visits > 0
          /\ data.zipCodes[j].reallocationPriority # 0

\* C12 covers the index that rounds to 0 as well: a ZIP with a population
\* whose population-weighted index is below one half is scored by the
\* generic formula.
C12_RoundsToZeroReached ==
    /\ Analyzed
    /\ \E k \in DOMAIN data.zipCodes :
          /\ data.zipCodes[k].population > 0
          /\ PopWeightedIndexesOf(data.zipCodes[k], data.zipCodes,
                                  data.summary.totalImpressions) = {0}
          /\ data.zipCodes[k].reallocationPriority < 0

-----------------------------------------------------------------------------
(* Claims: calcIndex (SpecScore) *)

\* What C13 asks of the index of a row with the given visit rate.
PerformanceIndexOf(index, visitRate, baseline) ==
    IF baseline.n = 0 THEN index = 0
    ELSE /\ Nearest(index, 100 * visitRate.n * baseline.d, visitRate.d * baseline.n)
         /\ visitRate = baseline => index = 100

\* C13: the performance index of a row is the integer nearest to
\* 100 * visit_rate / baseline_rate, 100 for a row at the baseline, and 0
\* when the baseline is 0.
C13_PerformanceIndex ==
    pc = "score_out" =>
        /\ PerformanceIndexOf(scoreOut.indexA, scoreIn.a.visitRate, scoreIn.baseline)
        /\ PerformanceIndexOf(scoreOut.indexB, scoreIn.b.visitRate, scoreIn.baseline)

\* C13 witness: one row at the baseline with index 100, the other one at a
\* rate that 100 * rate / baseline does not turn into a whole number.
C13_Witness ==
    /\ pc = "score_out"
    /\ scoreIn.baseline.n > 0
    /\ scoreIn.a.visitRate = scoreIn.baseline
    /\ scoreOut.indexA = 100
    /\ (100 * scoreIn.b.visitRate.n) % scoreIn.baseline.n # 0
    /\ scoreOut.indexB > 0

\* C13 covers the zero baseline too: this state is reached as well.
C13_ZeroBaselineReached ==
    /\ pc = "score_out"
    /\ scoreIn.baseline.n = 0
    /\ scoreIn.a.visitRate.n > 0
    /\ scoreOut.indexA = 0

-----------------------------------------------------------------------------
(* Claims: the rows analyzeData emits (SpecUi) *)

\* The dimension rows of a result: publishers, contexts and ZIP codes.
EmittedRows == SeqToSet(data.publishers) \cup SeqToSet(data.contexts)
                   \cup SeqToSet(data.zipCodes)

\* "Geographic tab requires 3K impression minimum per zip to display"; the
\* guardrail of the optimizer (MinImpressions, 3,500 per ZIP) is higher.
MinDisplayImpressions == 3000

\* C14 (as claimed): no emitted dimension row has zero impressions, and no
\* emitted ZIP row has fewer impressions than the minimum threshold of its
\* dimension.  The result of advertiser 37704 has the ZIP row 30302 with
\* 2,635 impressions.
C14_NoRowBelowThreshold ==
    Analyzed =>
        /\ \A row \in EmittedRows : row.impressions > 0
        /\ \A k \in DOMAIN data.zipCodes :
              data.zipCodes[k].impressions >= MinDisplayImpressions

\* The half of C14 about zero impressions holds of every result: the data
\* store has no row without impressions.
C14_NoZeroImpressionRow ==
    Analyzed => \A row \in EmittedRows : row.impressions > 0

\* The recommendation set analyzeData computes when rows exist and none of
\* them passes a tier's filter.
NothingSelected(summary) ==
    [conservative |-> Recommendation(<<>>, summary),
     aggressive |-> Recommendation(<<>>, summary)]

\* C18 (as claimed): the recommendation set of a dimension without rows
\* carries a reason and differs from the set computed when rows exist and
\* none is selected.  For the publishers the result's noPublisherData (shown
\* as the table's emptyMessage) is taken for a reason.  For advertiser
\* 40514, which has no ZIP rows, analyzeData gives the geography the very
\* set of a dimension with rows and none selected, without a reason.
C18_EmptyDimensionReason ==
    Analyzed =>
        /\ Len(data.zipCodes) = 0 =>
              /\ "reason" \in DOMAIN data.geoRecommendations
              /\ data.geoRecommendations # NothingSelected(data.summary)
        /\ Len(data.publishers) + Len(data.contexts) = 0 =>
              \/ data.noPublisherData
              \/ "reason" \in DOMAIN data.pubRecommendations

\* The part of C18 about geography alone fails as well.
C18_GeoDistinguishable ==
    Analyzed /\ Len(data.zipCodes) = 0 =>
        data.geoRecommendations # NothingSelected(data.summary)

\* Guardrails: min impressions 3,500 per ZIP/context.
MinImpressions == 3500

\* C19: no row with fewer impressions than the minimum-impressions guardrail
\* is selected in any tier.
C19_MinImpressionsGuard ==
    Analyzed =>
        \A r \in PubTiers \cup GeoTiers :
            \A k \in DOMAIN r.items : r.items[k].impressions >= MinImpressions

\* C19 witness: a result with scored rows under the minimum, none of them
\* selected, and a tier that selects rows (the result of advertiser 32623:
\* three publishers under 3,500 impressions, five ZIPs selected).
C19_Witness ==
    /\ Analyzed
    /\ \E row \in EmittedRows : row.impressions < MinImpressions
    /\ \E r \in PubTiers \cup GeoTiers : r.count > 0
    /\ \A r \in PubTiers \cup GeoTiers :
          \A k \in DOMAIN r.items : r.items[k].impressions >= MinImpressions

\* The conservative and the aggressive tier of each dimension.
TierPairs ==
    {[cons |-> data.geoRecommendations.conservative,
      agg |-> data.geoRecommendations.aggressive]}
    \cup (IF data.pubRecommendations = Null THEN {}
          ELSE {[cons |-> data.pubRecommendations.conservative,
                 agg |-> data.pubRecommendations.aggressive]})

\* C25: every row of the conservative tier is a row of the aggressive tier
\* of the same dimension, and the aggressive tier excludes at least as many
\* impressions.
C25_ConservativeWithinAggressive ==
    Analyzed =>
        \A t \in TierPairs :
            /\ SeqToSet(t.cons.items) \subseteq SeqToSet(t.agg.items)
            /\ t.agg.excImps >= t.cons.excImps

\* C25 witness: in both dimensions a conservative tier with rows inside an
\* aggressive tier that holds more rows and excludes more impressions.
C25_Witness ==
    /\ Analyzed
    /\ data.pubRecommendations # Null
    /\ \A t \in TierPairs :
          /\ t.cons.count > 0
          /\ t.agg.count > t.cons.count
          /\ SeqToSet(t.cons.items) \subseteq SeqToSet(t.agg.items)
          /\ t.agg.excImps > t.cons.excImps

\* C26 (as claimed): a tier that selects no rows projects no change: its new
\* rate is the baseline and its improvement is 0.  The new rate is
\* totalVisits / totalImpressions, the baseline is the stored
\* overallVisitRate, and the store rounds that rate: for advertiser 27828
\* 122,629 / 53,674,711 against 0.00229.
C26_EmptySelectionNoChange ==
    Analyzed =>
        \A r \in PubTiers \cup GeoTiers :
            r.count = 0 =>
                /\ SameNumber(r.newRate, data.summary.overallVisitRate)
                \* ((newRate / baseline) - 1) * 100 = 0
                /\ r.improvement.baseline.n > 0
                /\ SameNumber(r.improvement.newRate, r.improvement.baseline)

\* C27 (as claimed): in every tier the excluded impressions are fewer than
\* the total impressions and the excluded visits are at most the total
\* visits, so the new rate is a number, 0 or more.  For advertiser 45143 the
\* aggressive publisher tier excludes 8,662,688 of 7,624,633 impressions.
C27_ProjectionDefined ==
    Analyzed =>
        \A r \in PubTiers \cup GeoTiers :
            /\ r.excImps < data.summary.totalImpressions
            /\ Sum(r.items, "visits") <= data.summary.totalVisits
            /\ r.newRate.d > 0
            /\ r.newRate.n >= 0

-----------------------------------------------------------------------------
(* Claims: the lift and the household join (SpecLift) *)

\* The households the exposed impressions resolve to, and those among them
\* that a visitor row carries, both read from the input.
ExposedHouseholds ==
    {HouseholdOf(liftIn.impressions[i], liftIn.lookup) : i \in DOMAIN liftIn.impressions}
        \ {0}

VisitorHouseholds ==
    {liftIn.visitors[j].household_id : j \in DOMAIN liftIn.visitors}

SharedHouseholds == ExposedHouseholds \cap VisitorHouseholds

\* C15: with a control rate above 0 a lift that is returned is
\* 100 * (exposed_rate - control_rate) / control_rate, and it is returned
\* whenever the cohort resolves; with a control rate of 0 the outcome is a
\* failure, never a number.
C15_LiftFormula ==
    pc = "lift_out" =>
        LET e == Cardinality(SharedHouseholds)
            eh == Cardinality(ExposedHouseholds)
            c == liftIn.control
        IN  /\ c.visitors = 0 => ~liftOut.ok
            /\ c.visitors > 0 /\ e > 0 => liftOut.ok
            /\ liftOut.ok =>
                 /\ c.visitors > 0
                 /\ liftOut.lift_pct.d # 0
                 /\ liftOut.lift_pct.n * (c.visitors * eh)
                      = liftOut.lift_pct.d * 100 * (e * c.households - c.visitors * eh)

\* C15 witness: an exposed rate of 0.05 against a control rate of 0.04 gives
\* a lift of 25.
C15_Witness ==
    /\ pc = "lift_out"
    /\ Cardinality(ExposedHouseholds) = 20
    /\ Cardinality(SharedHouseholds) = 1
    /\ liftIn.control = [households |-> 25, visitors |-> 1]
    /\ liftOut.ok
    /\ liftOut.lift_pct.n = 25 * liftOut.lift_pct.d

\* C15 covers the control rate 0 as well: a cohort that resolves, against a
\* control cohort without visitors, ends in the failure.
C15_ZeroControlReached ==
    /\ pc = "lift_out"
    /\ Cardinality(SharedHouseholds) > 0
    /\ liftIn.control.visitors = 0
    /\ ~liftOut.ok
    /\ liftOut.reason = "ZeroControlRate"

\* C16: when no impression row resolves to a household shared with the
\* visitor side, lift fails with IdentityUnresolved.
C16_IdentityUnresolved ==
    pc = "lift_out" /\ SharedHouseholds = {} =>
        ~liftOut.ok /\ liftOut.reason = "IdentityUnresolved"

\* C16 witness: impressions and visitors exist, an exposed device identifier
\* even equals a visitor MAID, the control rate is above 0, and no household
\* is shared.
C16_Witness ==
    /\ pc = "lift_out"
    /\ SharedHouseholds = {}
    /\ ExposedHouseholds # {}
    /\ \E i \in DOMAIN liftIn.impressions, j \in DOMAIN liftIn.visitors :
           liftIn.impressions[i].device_id = liftIn.visitors[j].maid
    /\ liftIn.control.visitors > 0
    /\ liftOut.reason = "IdentityUnresolved"

\* The impression rows whose household a visitor row carries.
MatchedRows ==
    {i \in DOMAIN liftIn.impressions :
        HouseholdOf(liftIn.impressions[i], liftIn.lookup) \in VisitorHouseholds}

\* C17: the household-level view holds exactly the impression rows whose
\* household id a visitor row carries, whatever the device identifiers; the
\* matched rows and the unmatched count add up to the input; the device-level
\* view keeps every row.
C17_HouseholdJoin ==
    pc \in {"lift_in", "lift_out"} =>
        LET imps == liftIn.impressions
            view == joinOut.household_view
        IN  /\ \A k \in DOMAIN view :
                  /\ view[k].household_id \in VisitorHouseholds
                  /\ \E i \in MatchedRows :
                        /\ imps[i].device_id = view[k].device_id
                        /\ imps[i].ip = view[k].ip
                        /\ HouseholdOf(imps[i], liftIn.lookup) = view[k].household_id
            /\ Len(view) = Cardinality(MatchedRows)
            /\ Len(view) + joinOut.unmatched_count = Len(imps)
            /\ \A i \in DOMAIN imps \ MatchedRows :
                  /\ \A k \in DOMAIN view :
                        view[k].device_id # imps[i].device_id \/ view[k].ip # imps[i].ip
                  /\ joinOut.device_view[i] = imps[i]
            /\ Len(joinOut.device_view) = Len(imps)

\* C17 witness: one row matched through its household although its device
\* identifier equals no MAID, one row unmatched although its device
\* identifier equals a MAID.
C17_Witness ==
    /\ pc = "lift_in"
    /\ Len(joinOut.household_view) = 1
    /\ joinOut.unmatched_count = 1
    /\ \E i \in MatchedRows :
           \A j \in DOMAIN liftIn.visitors :
               liftIn.visitors[j].maid # liftIn.impressions[i].device_id
    /\ \E i \in DOMAIN liftIn.impressions \ MatchedRows :
           \E j \in DOMAIN liftIn.visitors :
               liftIn.visitors[j].maid = liftIn.impressions[i].device_id


-----------------------------------------------------------------------------
(* Claims: the sidebar and the Analyze request (SpecUi)                    *)

\* The advertisers the sidebar lists under an agency.
AdvertisersOf(agencyId) ==
    IF agencyId \in DOMAIN realAdvertisers THEN Listed(realAdvertisers[agencyId]) ELSE {}

\* C29: in every reachable state the selected advertiser is empty or an
\* advertiser of the selected agency, and the expanded agency is empty or
\* the selected agency; every step that changes the selected agency leaves
\* the selected advertiser empty and the result null.
C29_SelectionConsistent ==
    /\ [](selectedAdvertiser = "" \/ selectedAdvertiser \in AdvertisersOf(selectedAgency))
    /\ [](expandedAgency \in {"", selectedAgency})
    /\ [][selectedAgency' # selectedAgency =>
             selectedAdvertiser' = "" /\ data' = Null]_vars

\* An agency was switched while a request of an advertiser of the agency
\* before was pending: the selection is empty under the new agency.
C29_Witness ==
    /\ timers # <<>>
    /\ Head(timers).selectedAgency = "2514"
    /\ selectedAgency = "1480"
    /\ expandedAgency = "1480"
    /\ selectedAdvertiser = ""
    /\ data = Null

\* The requests that are pending: the timers that have not fired, and the
\* request whose callback has run and whose updates wait to be rendered.
PendingRequests == Len(timers) + (IF pendingUpdates = <<>> THEN 0 ELSE 1)

\* The results that wait in the queue of updates.
QueuedResults ==
    {i \in DOMAIN pendingUpdates :
        pendingUpdates[i].setter = "setData" /\ pendingUpdates[i].value # Null}

\* C30: at most one Analyze request is pending: loading is true exactly
\* while a request is pending (its timer, or the updates of its callback
\* that wait to be rendered), no step starts a timer while loading is true,
\* a callback queues at most one result, and every step that shows a
\* result takes the one pending request away.
C30_OnePendingRequest ==
    /\ [](PendingRequests <= 1)
    /\ [](loading <=> PendingRequests = 1)
    /\ [](Cardinality(QueuedResults) <= 1)
    /\ [][loading => Len(timers') <= Len(timers)]_vars
    /\ [][data' # Null /\ data' # data =>
             /\ timers = <<>>
             /\ pendingUpdates # <<>>
             /\ pendingUpdates' = <<>>]_vars

\* A request is pending and another advertiser has been selected since:
\* only loading keeps the Analyze button disabled.
C30_Witness ==
    /\ loading
    /\ Len(timers) = 1
    /\ selectedAdvertiser # ""
    /\ selectedAdvertiser # Head(timers).selectedAdvertiser

\* The callback of a request has run and its result waits to be rendered,
\* with loading still true.
C30_ResultQueued ==
    /\ loading
    /\ timers = <<>>
    /\ Cardinality(QueuedResults) = 1

\* C24: whenever the displayed result is not null it was computed from the
\* data of the currently selected advertiser and agency.  The timer callback
\* reads the advertiser and agency of the render in which Analyze was
\* clicked, and writes its result whatever is selected when it fires.
C24_ResultOfSelection ==
    data # Null =>
        /\ selectedAdvertiser \in DOMAIN advertiserData
        /\ data = Rendered(Analysis(advertiserData[selectedAdvertiser], selectedAgency))

\* The same for a result shown while an advertiser is selected: the result
\* of the advertiser selected before is shown under the new one.
C24_ResultOfSelectedAdvertiser ==
    data # Null /\ selectedAdvertiser # "" =>
        data = Rendered(Analysis(advertiserData[selectedAdvertiser], selectedAgency))

\* A click has called setData(null) since the callback queued its updates.
ClearedSinceCallback ==
    \E i \in DOMAIN pendingUpdates :
        pendingUpdates[i].setter = "setData" /\ pendingUpdates[i].value = Null

\* C28 (as claimed): every Analyze request terminates: under every
\* interleaving of agency clicks, advertiser clicks and Analyze, loading
\* that is true becomes false, and the request ends with a result that is
\* not null: data is not null when loading returns to false.  A click
\* between the callback and the rendering of its updates calls
\* setData(null) after the setData of the callback, and data ends null.
C28_RequestEndsWithResult ==
    /\ loading ~> ~loading
    /\ [][loading /\ ~loading' => data' # Null]_vars

\* C28 (amended): loading that is true becomes false; the callback of every
\* request calls setData with a result that is not null and then
\* setLoading(false); and when loading returns to false data is that
\* result, unless a click has called setData(null) since the callback.
C28_RequestTerminates ==
    /\ loading ~> ~loading
    /\ [][Len(timers') < Len(timers) =>
             /\ Len(pendingUpdates') = Len(pendingUpdates) + 2
             /\ pendingUpdates'[Len(pendingUpdates) + 1].setter = "setData"
             /\ pendingUpdates'[Len(pendingUpdates) + 1].value # Null
             /\ pendingUpdates'[Len(pendingUpdates) + 2] = SetLoading(FALSE)]_vars
    /\ [][loading /\ ~loading' =>
             IF ClearedSinceCallback THEN data' = Null
             ELSE /\ Cardinality(QueuedResults) = 1
                  /\ \A i \in QueuedResults :
                        data' = Rendered(pendingUpdates[i].value)]_vars

\* A request has ended with a result after the selection was cleared by an
\* agency click while its timer was pending.
C28_Witness ==
    /\ ~loading
    /\ timers = <<>>
    /\ pendingUpdates = <<>>
    /\ data # Null
    /\ selectedAdvertiser = ""

\* A click has cleared the result that the callback of a request has
\* queued, before it is rendered.
C28_ClearedBeforeRender ==
    /\ loading
    /\ timers = <<>>
    /\ Cardinality(QueuedResults) = 1
    /\ ClearedSinceCallback
    /\ data = Null
=============================================================================
